---- MODULE Spec2Model ----
(***************************************************************************)
(* hmat-oss: block compression (compression.cpp), Hackbusch admissibility  *)
(* (admissibility.cpp) and the Vector helpers of full_matrix.cpp.          *)
(*                                                                         *)
(* Scalars are the real type dp_t in exact arithmetic: a scalar is a       *)
(* rational <<num, den>> in lowest terms with den > 0.  Vectors and the    *)
(* index sets of a block are functions over 0..n-1, as in the source.      *)
(***************************************************************************)
EXTENDS Integers, Sequences, FiniteSets, TLC

(***************************************************************************)
(* Bounds of the model.                                                    *)
(***************************************************************************)
\* a block has rows.size * cols.size <= MaxElems entries
MaxElems == 6
\* approx.k (k_max) ranges over 0..MaxApproxK; 0 means "not fixed"
MaxApproxK == 1

\* the points of a cluster have their coordinate in 0..MaxCoord
MaxCoord == 6
\* a cluster holds 1..MaxSize points
MaxSize == 3
\* clean() releases at most MaxCleans boxes of a node
MaxCleans == 1

\* entries of the kernel matrix
Vals == {0, 1}
\* squares of the tolerances assemblyEpsilon: (1/2)^2 and (1/20)^2
EpsSquares == {<<1, 4>>, <<1, 400>>}

(***************************************************************************)
(* Exact scalars.                                                          *)
(***************************************************************************)
RECURSIVE Gcd(_, _)
Gcd(a, b) == IF b = 0 THEN a ELSE Gcd(b, a % b)

Abs(x) == IF x < 0 THEN -x ELSE x

Rat(n, d) ==
  LET s == IF d < 0 THEN -1 ELSE 1
      g == Gcd(Abs(n), Abs(d))
  IN  <<(s * n) \div g, (s * d) \div g>>

\* Constants<T>::zero, pone, mone
Zero == <<0, 1>>
POne == <<1, 1>>
MOne == <<-1, 1>>

RAdd(x, y) == Rat(x[1] * y[2] + y[1] * x[2], x[2] * y[2])
RMul(x, y) == Rat(x[1] * y[1], x[2] * y[2])
RDiv(x, y) == Rat(x[1] * y[2], x[2] * y[1])
RLess(x, y) == x[1] * y[2] < y[1] * x[2]

\* squaredNorm<T>(x) = x * x
squaredNorm(x) == <<x[1] * x[1], x[2] * x[2]>>

(***************************************************************************)
(* Vector<T> (full_matrix.cpp).  A vector is a function over 0..rows-1.    *)
(***************************************************************************)
VRows(v) == Cardinality(DOMAIN v)

\* Vector(int rows): calloc, i.e. zero-filled; also the result of clear()
ZeroVector(n) == [i \in 0..(n - 1) |-> Zero]

\* v.axpy(alpha, x): v := v + alpha * x
axpy(v, alpha, x) == [i \in DOMAIN v |-> RAdd(v[i], RMul(alpha, x[i]))]

\* v.scale(alpha)
scaleMul(v, alpha) == [i \in DOMAIN v |-> RMul(alpha, v[i])]
scale(v, alpha) == IF alpha = Zero THEN ZeroVector(VRows(v)) ELSE scaleMul(v, alpha)

RECURSIVE DotTo(_, _, _)
DotTo(x, y, n) ==
  IF n = 0 THEN Zero ELSE RAdd(DotTo(x, y, n - 1), RMul(x[n - 1], y[n - 1]))

\* Vector::dot(x, y) (real scalars: no conjugation)
dot(x, y) == DotTo(x, y, VRows(x))

\* Vector::normSqr()
normSqr(v) == dot(v, v)

\* Vector::absoluteMaxIndex(): i_amax, the first index of largest modulus
amaxStrict(v) ==
  CHOOSE i \in DOMAIN v :
    /\ \A j \in DOMAIN v : ~RLess(squaredNorm(v[i]), squaredNorm(v[j]))
    /\ \A j \in DOMAIN v : j < i => RLess(squaredNorm(v[j]), squaredNorm(v[i]))
absoluteMaxIndex(v) == amaxStrict(v)

\* isZero(v): the entry of largest modulus is zero
isZero(v) == v[absoluteMaxIndex(v)] = Zero

(***************************************************************************)
(* State.                                                                  *)
(***************************************************************************)
VARIABLES
  \* ---- compress(method, f, rows, cols) ----
  method,        \* CompressionMethod asked of compress
  kernel,        \* the user function f over the block: [rows, cols, m], m[i][j]
  info,          \* hmat_block_info_t filled by f.prepareBlock
  eps2,          \* RkMatrix::approx.assemblyEpsilon, squared
  approxK,       \* RkMatrix::approx.k
  pc,            \* where the call stands
  calls,         \* how often each kernel callback has run
  m,             \* compressAcaFull: the assembled block, then the residual
  tmpA, tmpB,    \* compressAcaFull: the working matrices, as columns
  nu,            \* compressAcaFull: loop counter
  estimateSquaredNorm,
  rowFree, colFree,
  rowPivotCount, \* compressAcaPartial
  aCols, bCols,  \* std::vector<Vector*>, as sequences
  I, J, k,
  aRef, bRef, i_ref, j_ref,   \* compressAcaPlus
  pivots,        \* the (row, column) of each pair pushed to aCols and bCols
  oob,           \* an index outside its container has been read
  rk,            \* the RkMatrix returned, NULL before the return
  \* ---- StandardAdmissibilityCondition ----
  compressionMethod,        \* HMatSettings::getInstance().compressionMethod
  eta_,
  maxElementsPerBlock,
  data,                     \* ClusterTree::data of each node: its points
  admissibilityAlgoData_,   \* ClusterTree::admissibilityAlgoData_ of each node
  admCall,                  \* the last isAdmissible call and what it returned
  always_,
  built,                    \* the AxisAlignedBoundingBox built for each node, counted
  released,                 \* the AxisAlignedBoundingBox deleted for each node, counted
  \* ---- FullMatrix, Vector ----
  heap,          \* the blocks of memory: what they hold, how often they were freed
  mat,           \* the FullMatrix objects, NULL when not constructed or destroyed
  vect,          \* a Vector object, NULL when destroyed
  thrown,        \* how the last operation ended: NULL, or what it threw
  ops            \* the operations applied so far: <<name, matrix>>

\* a pointer is NULL or points to one object
NULL == <<>>
New(x) == <<x>>
Deref(p) == p[1]

Methods == {"Svd", "AcaFull", "AcaPartial", "AcaPlus", "NoCompression"}

RowCount == kernel.rows
ColCount == kernel.cols

min(a, b) == IF a < b THEN a ELSE b

(***************************************************************************)
(* ClusterAssemblyFunction: the kernel behind the block hints.             *)
(***************************************************************************)
KernelRow(index) == kernel.m[index]
KernelCol(index) == [i \in 0..(RowCount - 1) |-> kernel.m[i][index]]

\* does getRow / getCol reach the kernel ?
\* a variant without the test on the hints
RowAskedAlways(index) == TRUE
RowAsked(index) == info.block_type # "hmat_block_sparse" \/ index \notin info.null_rows
ColAsked(index) == info.block_type # "hmat_block_sparse" \/ index \notin info.null_cols

\* getRow(index, result): result is overwritten only when the kernel is asked
getRow(index, result) == IF RowAsked(index) THEN KernelRow(index) ELSE result
getCol(index, result) == IF ColAsked(index) THEN KernelCol(index) ELSE result

\* FullMatrix<T>::Zero(rows, cols)
ZeroMatrix(r, c) == [i \in 0..(r - 1) |-> ZeroVector(c)]

\* assemble()
assemble ==
  IF info.block_type # "hmat_block_null"
    THEN [rows |-> RowCount, cols |-> ColCount, m |-> kernel.m]
    ELSE [rows |-> RowCount, cols |-> ColCount, m |-> ZeroMatrix(RowCount, ColCount)]

(***************************************************************************)
(* Helpers of the cross approximations.                                    *)
(***************************************************************************)
RECURSIVE updateRow(_, _, _, _, _)
\* rowVec -= cols[l][row] * rows[l] for l < k
updateRow(rowVec, row, rows, cols, kk) ==
  IF kk = 0 THEN rowVec
  ELSE axpy(updateRow(rowVec, row, rows, cols, kk - 1),
            RMul(MOne, cols[kk][row]), rows[kk])

\* a variant that leaves the column as the kernel gave it
updateColNone(colVec, col, cols, rows, kk) == colVec
updateCol(colVec, col, cols, rows, kk) == updateRow(colVec, col, cols, rows, kk)

\* column-major position of (row, col) in an r-row matrix
Pos(row, col, r) == col * r + row

\* findMax(m): the first entry of largest modulus in column-major order
findMax(fm) ==
  LET cells == (0..(fm.rows - 1)) \X (0..(fm.cols - 1))
      n2(c) == squaredNorm(fm.m[c[1]][c[2]])
  IN  CHOOSE c \in cells :
        /\ \A d \in cells : ~RLess(n2(c), n2(d))
        /\ \A d \in cells :
             Pos(d[1], d[2], fm.rows) < Pos(c[1], c[2], fm.rows) => RLess(n2(d), n2(c))

RECURSIVE findColFrom(_, _, _, _)
findColFrom(i, free, col, asked) ==
  IF i = Cardinality(DOMAIN free)
    THEN [idx |-> -1, free |-> free, vec |-> col, asked |-> asked]
  ELSE IF free[i]
    THEN LET c == getCol(i, ZeroVector(VRows(col)))
             a == asked + (IF ColAsked(i) THEN 1 ELSE 0)
             f == [free EXCEPT ![i] = FALSE]
         IN  IF ~isZero(c)
               THEN [idx |-> i, free |-> f, vec |-> c, asked |-> a]
               ELSE findColFrom(i + 1, f, c, a)
  ELSE findColFrom(i + 1, free, col, asked)

\* findCol without the test "if (colFree[i])"
findColAny(free, col) == findColFrom(0, [j \in DOMAIN free |-> TRUE], col, 0)
\* findCol(block, colFree, col): idx, the updated colFree and col, and the
\* number of getCol calls that reached the kernel
findCol(free, col) == findColFrom(0, free, col, 0)

\* the first free index of smallest modulus in ref, -1 when none is free
argMinFree(free, ref) ==
  IF \A i \in DOMAIN free : ~free[i] THEN -1
  ELSE CHOOSE i \in DOMAIN free :
         /\ free[i]
         /\ \A j \in DOMAIN free :
              free[j] => ~RLess(squaredNorm(ref[j]), squaredNorm(ref[i]))
         /\ \A j \in DOMAIN free :
              (free[j] /\ j < i) => RLess(squaredNorm(ref[i]), squaredNorm(ref[j]))

RECURSIVE findMinRowLoop(_, _, _, _, _, _)
findMinRowLoop(free, as, bs, ref, row, asked) ==
  LET ir == argMinFree(free, ref)
  IN  IF ir = -1
        THEN [idx |-> -1, free |-> free, vec |-> row, asked |-> asked]
        ELSE LET r == updateRow(getRow(ir, ZeroVector(VRows(row))), ir, bs, as, Len(as))
                 a == asked + (IF RowAsked(ir) THEN 1 ELSE 0)
                 f == [free EXCEPT ![ir] = FALSE]
             IN  IF ~isZero(r)
                   THEN [idx |-> ir, free |-> f, vec |-> r, asked |-> a]
                   ELSE findMinRowLoop(f, as, bs, ref, r, a)

\* a variant that takes the first candidate, zero or not (sensitivity of
\* AcaPlusRefs)
findMinRowAny(free, as, bs, ref, row) ==
  LET ir == argMinFree(free, ref)
  IN  IF ir = -1
        THEN [idx |-> -1, free |-> free, vec |-> row, asked |-> 0]
        ELSE [idx |-> ir, free |-> [free EXCEPT ![ir] = FALSE],
              vec |-> updateRow(getRow(ir, ZeroVector(VRows(row))), ir, bs, as, Len(as)),
              asked |-> IF RowAsked(ir) THEN 1 ELSE 0]
\* findMinRow(block, rowFree, aCols, bCols, aRef, row)
findMinRow(free, as, bs, ref, row) == findMinRowLoop(free, as, bs, ref, row, 0)

RECURSIVE findMinColLoop(_, _, _, _, _, _)
findMinColLoop(free, as, bs, ref, col, asked) ==
  LET jr == argMinFree(free, ref)
  IN  IF jr = -1
        THEN [idx |-> -1, free |-> free, vec |-> col, asked |-> asked]
        ELSE LET c == updateCol(getCol(jr, ZeroVector(VRows(col))), jr, as, bs, Len(bs))
                 a == asked + (IF ColAsked(jr) THEN 1 ELSE 0)
                 f == [free EXCEPT ![jr] = FALSE]
             IN  IF ~isZero(c)
                   THEN [idx |-> jr, free |-> f, vec |-> c, asked |-> a]
                   ELSE findMinColLoop(f, as, bs, ref, c, a)

\* findMinCol(block, colFree, aCols, bCols, bRef, col)
findMinCol(free, as, bs, ref, col) == findMinColLoop(free, as, bs, ref, col, 0)

RECURSIVE crossSum(_, _, _, _, _)
\* sum over l < n of <a, as[l]> * <b, bs[l]>
crossSum(a, b, as, bs, n) ==
  IF n <= 0 THEN Zero
  ELSE RAdd(crossSum(a, b, as, bs, n - 1), RMul(dot(a, as[n]), dot(b, bs[n])))

\* the stopping test ||a||^2 ||b||^2 < epsilon^2 ||S||^2
stopTest(ab_norm_2, estimate) == RLess(ab_norm_2, RMul(eps2, estimate))

\* new RkMatrix(a, rows, b, cols, method); a and b are NULL or point to a
\* FullMatrix [rows, cols, m], m the sequence of the columns
RkMatrix(a, b, tag) == New([a |-> a, b |-> b, method |-> tag])
FullMatrix(r, c, columns) == [rows |-> r, cols |-> c, m |-> columns]

(***************************************************************************)
(* Inputs of compress.                                                     *)
(***************************************************************************)
Shapes == {s \in (1..MaxElems) \X (1..MaxElems) : s[1] * s[2] <= MaxElems}

ToRat(f) == [i \in DOMAIN f |-> [j \in DOMAIN f[i] |-> Rat(f[i][j], 1)]]

Blocks ==
  UNION {{[rows |-> s[1], cols |-> s[2], m |-> ToRat(f)] :
            f \in [0..(s[1] - 1) -> [0..(s[2] - 1) -> Vals]]} : s \in Shapes}

NullRows(kern) == {i \in 0..(kern.rows - 1) : \A j \in 0..(kern.cols - 1) : kern.m[i][j] = Zero}
NullCols(kern) == {j \in 0..(kern.cols - 1) : \A i \in 0..(kern.rows - 1) : kern.m[i][j] = Zero}

\* what f.prepareBlock may answer for a block: hints that are true of the kernel
BlockInfos(kern) ==
  {[block_type |-> "hmat_block_full", null_rows |-> {}, null_cols |-> {}]}
  \cup (IF NullRows(kern) \cup NullCols(kern) # {}
          THEN {[block_type |-> "hmat_block_sparse",
                 null_rows |-> NullRows(kern), null_cols |-> NullCols(kern)]}
          ELSE {})
  \cup (IF NullRows(kern) = 0..(kern.rows - 1)
          THEN {[block_type |-> "hmat_block_null", null_rows |-> {}, null_cols |-> {}]}
          ELSE {})

NoCalls == [prepareBlock |-> 0, releaseBlock |-> 0, getRow |-> 0, getCol |-> 0, assemble |-> 0]

cmpLocals == <<m, tmpA, tmpB, nu, estimateSquaredNorm, rowFree, colFree, rowPivotCount,
               aCols, bCols, I, J, k, aRef, bRef, i_ref, j_ref, pivots>>
cmpInputs == <<method, kernel, eps2, approxK>>
cmpVars == <<cmpInputs, info, pc, calls, cmpLocals, oob, rk>>
admVars == <<compressionMethod, eta_, maxElementsPerBlock, data, admissibilityAlgoData_,
             admCall, always_, built, released>>
fmVars == <<heap, mat, vect, thrown, ops>>
vars == <<cmpVars, admVars, fmVars>>

\* no admissibility condition, no cluster tree
AdmUnused ==
  /\ compressionMethod = "NoCompression" /\ eta_ = 0 /\ maxElementsPerBlock = 0
  /\ data = <<>> /\ admissibilityAlgoData_ = <<>> /\ admCall = NULL
  /\ always_ = FALSE /\ built = <<>> /\ released = <<>>

\* no FullMatrix, no Vector
FmUnused ==
  /\ heap = <<>> /\ mat = <<>> /\ vect = NULL /\ thrown = NULL /\ ops = <<>>

NoLocals ==
  /\ m = NULL /\ tmpA = <<>> /\ tmpB = <<>> /\ nu = 0
  /\ estimateSquaredNorm = Zero
  /\ rowFree = <<>> /\ colFree = <<>> /\ rowPivotCount = 0
  /\ aCols = <<>> /\ bCols = <<>> /\ I = 0 /\ J = 0 /\ k = 0
  /\ aRef = <<>> /\ bRef = <<>> /\ i_ref = 0 /\ j_ref = 0
  /\ pivots = <<>>

InitCompress ==
  /\ method \in Methods
  /\ kernel \in Blocks
  /\ eps2 \in EpsSquares
  /\ approxK \in 0..MaxApproxK
  /\ info = NULL
  /\ pc = "call"
  /\ calls = NoCalls
  /\ NoLocals
  /\ oob = FALSE
  /\ rk = NULL
  /\ AdmUnused /\ FmUnused

(***************************************************************************)
(* compress: entry and dispatch.                                           *)
(***************************************************************************)
\* compress(): the ClusterAssemblyFunction is built, f.prepareBlock fills info
Compress ==
  /\ pc = "call"
  /\ \E bi \in BlockInfos(kernel) : info' = bi
  /\ calls' = [calls EXCEPT !.prepareBlock = @ + 1]
  /\ pc' = "dispatch"
  /\ UNCHANGED <<fmVars, admVars, cmpInputs, cmpLocals, oob, rk>>

\* HMAT_ASSERT(false): the failure leaves compress() through the destructor of
\* its ClusterAssemblyFunction, which calls f.releaseBlock
HmatAssertFails(c) == [c EXCEPT !.releaseBlock = @ + 1]

\* compressWithoutValidation(), case NoCompression: HMAT_ASSERT(false)
CompressNoCompression ==
  /\ pc = "dispatch" /\ method = "NoCompression"
  /\ pc' = "fatal"
  /\ calls' = HmatAssertFails(calls)
  /\ UNCHANGED <<fmVars, admVars, cmpInputs, info, cmpLocals, oob, rk>>

\* truncatedSvd(): the info of gesvd, 0 on success
SvdInfos == {0, 1}
\* approx.findK(sigma, maxK, epsilon): some rank between 0 and maxK
findK(maxK) == 0..maxK

\* compressMatrix(m, rows, cols), given gesvd's info and findK's answer
compressMatrix(fm, svdInfo, kk) ==
  IF \A j \in 0..(fm.cols - 1) : isZero([i \in 0..(fm.rows - 1) |-> fm.m[i][j]])
    THEN [pc |-> "return", rk |-> RkMatrix(NULL, NULL, "NoCompression")]
  ELSE IF svdInfo # 0
    THEN [pc |-> "fatal", rk |-> rk]
  ELSE IF kk = 0
    THEN [pc |-> "return", rk |-> RkMatrix(NULL, NULL, "NoCompression")]
  ELSE [pc |-> "return",
        rk |-> RkMatrix(New(FullMatrix(fm.rows, kk, <<>>)),
                       New(FullMatrix(fm.cols, kk, <<>>)), "Svd")]

\* compressSvd(block)
CompressSvd ==
  /\ pc = "dispatch" /\ method = "Svd"
  /\ \E svdInfo \in SvdInfos : \E kk \in findK(min(RowCount, ColCount)) :
     \E r \in {compressMatrix(assemble, svdInfo, kk)} :
     \E c \in {[calls EXCEPT !.assemble =
                   @ + (IF info.block_type # "hmat_block_null" THEN 1 ELSE 0)]} :
       /\ pc' = r.pc /\ rk' = r.rk
       /\ calls' = IF r.pc = "fatal" THEN HmatAssertFails(c) ELSE c
  /\ UNCHANGED <<fmVars, admVars, cmpInputs, info, cmpLocals, oob>>

(***************************************************************************)
(* compressAcaFull.                                                        *)
(***************************************************************************)
\* maxK of compressAcaFull
acaFullMaxK(r, c) == IF approxK > 0 THEN min(min(r, c), approxK) ELSE min(r, c)

AcaFullBegin ==
  /\ pc = "dispatch" /\ method = "AcaFull"
  /\ m' = assemble
  /\ calls' = [calls EXCEPT !.assemble =
                 @ + (IF info.block_type # "hmat_block_null" THEN 1 ELSE 0)]
  /\ estimateSquaredNorm' = Zero
  /\ tmpA' = [l \in 1..acaFullMaxK(RowCount, ColCount) |-> ZeroVector(RowCount)]
  /\ tmpB' = [l \in 1..acaFullMaxK(RowCount, ColCount) |-> ZeroVector(ColCount)]
  /\ nu' = 0
  /\ pc' = "AcaFull"
  /\ UNCHANGED <<fmVars, admVars, cmpInputs, info, rowFree, colFree, rowPivotCount, aCols, bCols, I, J, k,
                 aRef, bRef, i_ref, j_ref, pivots, oob, rk>>

\* the terms of the running estimate that compressAcaFull sums: l < nu - 1
acaFullCrossTerms(n) == n - 1

\* one pass of the for loop
AcaFullIter ==
  /\ pc = "AcaFull" /\ nu < Len(tmpA)
  /\ \E ij \in {findMax(m)} : \E delta \in {m.m[ij[1]][ij[2]]} :
       IF squaredNorm(delta) = Zero
         THEN /\ pc' = "AcaFull_end"
              /\ UNCHANGED <<m, tmpA, tmpB, nu, estimateSquaredNorm>>
         ELSE \E va \in {[i \in 0..(m.rows - 1) |-> m.m[i][ij[2]]]} :
              \E vb \in {[j \in 0..(m.cols - 1) |-> RDiv(m.m[ij[1]][j], delta)]} :
              \E ab_norm_2 \in {RMul(normSqr(va), normSqr(vb))} :
              \E est \in {RAdd(RAdd(estimateSquaredNorm,
                              RMul(Rat(2, 1), crossSum(va, vb, tmpA, tmpB, acaFullCrossTerms(nu)))),
                            ab_norm_2)} :
                /\ tmpA' = [tmpA EXCEPT ![nu + 1] = va]
                /\ tmpB' = [tmpB EXCEPT ![nu + 1] = vb]
                /\ m' = [m EXCEPT !.m = [i \in 0..(m.rows - 1) |->
                           [j \in 0..(m.cols - 1) |->
                              RAdd(m.m[i][j], RMul(MOne, RMul(va[i], vb[j])))]]]
                /\ estimateSquaredNorm' = est
                /\ IF stopTest(ab_norm_2, est)
                     THEN pc' = "AcaFull_end" /\ nu' = nu
                     ELSE pc' = "AcaFull" /\ nu' = nu + 1
  /\ UNCHANGED <<fmVars, admVars, cmpInputs, info, calls, rowFree, colFree, rowPivotCount, aCols, bCols,
                 I, J, k, aRef, bRef, i_ref, j_ref, pivots, oob, rk>>

\* a variant that keeps one column more than nu (sensitivity of RankAtMostMin)
acaFullRkOneMore(n) ==
  RkMatrix(New(FullMatrix(m.rows, n + 1, Append(SubSeq(tmpA, 1, n), ZeroVector(m.rows)))),
           New(FullMatrix(m.cols, n + 1, Append(SubSeq(tmpB, 1, n), ZeroVector(m.cols)))),
           "AcaFull")

\* the RkMatrix built after the loop: the first n columns of tmpA and tmpB
acaFullRk(n) ==
  IF n = 0
    THEN RkMatrix(NULL, NULL, "AcaFull")
    ELSE RkMatrix(New(FullMatrix(m.rows, n, SubSeq(tmpA, 1, n))),
                  New(FullMatrix(m.cols, n, SubSeq(tmpB, 1, n))), "AcaFull")

AcaFullEnd ==
  /\ \/ pc = "AcaFull_end"
     \/ pc = "AcaFull" /\ nu >= Len(tmpA)
  /\ rk' = acaFullRk(nu)
  /\ pc' = "return"
  /\ UNCHANGED <<fmVars, admVars, cmpInputs, info, calls, cmpLocals, oob>>

(***************************************************************************)
(* compressAcaPartial.                                                     *)
(***************************************************************************)
AcaPartialBegin ==
  /\ pc = "dispatch" /\ method = "AcaPartial"
  /\ estimateSquaredNorm' = Zero
  /\ rowFree' = [i \in 0..(RowCount - 1) |-> TRUE]
  /\ colFree' = [j \in 0..(ColCount - 1) |-> TRUE]
  /\ rowPivotCount' = 0
  /\ aCols' = <<>> /\ bCols' = <<>>
  /\ I' = 0 /\ J' = 0 /\ k' = 0
  /\ pivots' = <<>>
  /\ pc' = "AcaPartial"
  /\ UNCHANGED <<fmVars, admVars, cmpInputs, info, calls, m, tmpA, tmpB, nu, aRef, bRef, i_ref, j_ref, oob, rk>>

\* "for (i...) if (free[i] && norm2 > maxNorm2) { maxNorm2 = norm2; index = i; }":
\* the first free index of largest non-zero modulus, else the index as it was
argMaxFree(free, vec, index) ==
  IF \A i \in DOMAIN vec : ~free[i] \/ vec[i] = Zero THEN index
  ELSE CHOOSE i \in DOMAIN vec :
         /\ free[i] /\ vec[i] # Zero
         /\ \A j \in DOMAIN vec :
              free[j] => ~RLess(squaredNorm(vec[i]), squaredNorm(vec[j]))
         /\ \A j \in DOMAIN vec :
              (free[j] /\ j < i) => RLess(squaredNorm(vec[j]), squaredNorm(vec[i]))

\* "I = 0; while (!rowFree[I]) I++;": the first free row, or the size of
\* rowFree when no row is free: the scan has then left the vector
firstFree(free) ==
  IF \E i \in DOMAIN free : free[i]
    THEN CHOOSE i \in DOMAIN free : free[i] /\ \A j \in DOMAIN free : j < i => ~free[j]
    ELSE Cardinality(DOMAIN free)

\* a variant that allows one pass more (sensitivity of CompressTerminates)
acaPartialGoesOnOnceMore(count) == count < min(RowCount, ColCount) + 1
\* the while condition of the do loop
acaPartialGoesOn(count) == count < min(RowCount, ColCount)

\* one pass of the do loop
AcaPartialIter ==
  /\ pc = "AcaPartial"
  /\ \E row \in {updateRow(getRow(I, ZeroVector(ColCount)), I, bCols, aCols, k)} :
     \E free1 \in {[rowFree EXCEPT ![I] = FALSE]} :
     \E J1 \in {argMaxFree(colFree, row, J)} :
       /\ rowFree' = free1
       /\ rowPivotCount' = rowPivotCount + 1
       /\ J' = J1
       /\ IF row[J1] = Zero
            THEN \* no pivot in this row: look for a row not yet used
                 /\ calls' = [calls EXCEPT !.getRow = @ + (IF RowAsked(I) THEN 1 ELSE 0)]
                 /\ UNCHANGED <<aCols, bCols, colFree, k, estimateSquaredNorm, pivots>>
                 /\ IF firstFree(free1) < RowCount
                      THEN /\ I' = firstFree(free1)
                           /\ oob' = oob
                           /\ pc' = IF acaPartialGoesOn(rowPivotCount + 1)
                                      THEN "AcaPartial" ELSE "AcaPartial_end"
                      ELSE \* rowFree[RowCount] is read: outside the vector
                           /\ oob' = TRUE
                           /\ \/ /\ I' = RowCount
                                 /\ pc' = IF acaPartialGoesOn(rowPivotCount + 1)
                                            THEN "AcaPartial" ELSE "AcaPartial_end"
                              \/ /\ I' = I
                                 /\ pc' = "fault"
            ELSE \E bCol \in {scale(row, RDiv(POne, row[J1]))} :
                 \E aCol \in {updateCol(getCol(J1, ZeroVector(RowCount)), J1, aCols, bCols, k)} :
                 \E ab_norm_2 \in {RMul(normSqr(aCol), normSqr(bCol))} :
                 \E est \in {RAdd(RAdd(estimateSquaredNorm,
                                RMul(Rat(2, 1), crossSum(aCol, bCol, aCols, bCols, k))),
                              ab_norm_2)} :
                   /\ calls' = [calls EXCEPT
                                  !.getRow = @ + (IF RowAsked(I) THEN 1 ELSE 0),
                                  !.getCol = @ + (IF ColAsked(J1) THEN 1 ELSE 0)]
                   /\ bCols' = Append(bCols, bCol)
                   /\ aCols' = Append(aCols, aCol)
                   /\ pivots' = Append(pivots, <<I, J1>>)
                   /\ colFree' = [colFree EXCEPT ![J1] = FALSE]
                   /\ I' = argMaxFree(free1, aCol, I)
                   /\ estimateSquaredNorm' = est
                   /\ k' = k + 1
                   /\ oob' = oob
                   /\ pc' = IF stopTest(ab_norm_2, est) THEN "AcaPartial_end"
                            ELSE IF acaPartialGoesOn(rowPivotCount + 1)
                                   THEN "AcaPartial" ELSE "AcaPartial_end"
  /\ UNCHANGED <<fmVars, admVars, cmpInputs, info, m, tmpA, tmpB, nu, aRef, bRef, i_ref, j_ref, rk>>

\* a variant without the k == 0 case (sensitivity of RkShape)
acaPartialRkNoEmpty(kk) ==
  RkMatrix(New(FullMatrix(RowCount, kk, SubSeq(aCols, 1, kk))),
           New(FullMatrix(ColCount, kk, SubSeq(bCols, 1, kk))), "AcaPartial")

\* the RkMatrix built after the loop
acaPartialRk(kk) ==
  IF kk # 0
    THEN RkMatrix(New(FullMatrix(RowCount, kk, SubSeq(aCols, 1, kk))),
                  New(FullMatrix(ColCount, kk, SubSeq(bCols, 1, kk))), "AcaPartial")
    ELSE RkMatrix(NULL, NULL, "AcaPartial")

AcaPartialEnd ==
  /\ pc = "AcaPartial_end"
  /\ rk' = acaPartialRk(k)
  /\ pc' = "return"
  /\ UNCHANGED <<fmVars, admVars, cmpInputs, info, calls, cmpLocals, oob>>

(***************************************************************************)
(* compressAcaPlus.                                                        *)
(***************************************************************************)
AcaPlusBegin ==
  /\ pc = "dispatch" /\ method = "AcaPlus"
  /\ estimateSquaredNorm' = Zero
  /\ aCols' = <<>> /\ bCols' = <<>> /\ k' = 0
  /\ pivots' = <<>>
  /\ \E fc \in {findCol([j \in 0..(ColCount - 1) |-> TRUE], ZeroVector(RowCount))} :
       /\ j_ref' = fc.idx
       /\ colFree' = fc.free
       /\ aRef' = fc.vec
       /\ IF fc.idx = -1
            THEN \* the block is completely zero
                 /\ rk' = RkMatrix(NULL, NULL, "AcaPlus")
                 /\ pc' = "return"
                 /\ rowFree' = [i \in 0..(RowCount - 1) |-> TRUE]
                 /\ bRef' = ZeroVector(ColCount)
                 /\ i_ref' = i_ref
                 /\ calls' = [calls EXCEPT !.getCol = @ + fc.asked]
            ELSE \E fr \in {findMinRow([i \in 0..(RowCount - 1) |-> TRUE], <<>>, <<>>,
                                       fc.vec, ZeroVector(ColCount))} :
                 /\ i_ref' = fr.idx
                 /\ rowFree' = fr.free
                 /\ bRef' = fr.vec
                 /\ rk' = rk
                 /\ pc' = "AcaPlus"
                 /\ calls' = [calls EXCEPT !.getCol = @ + fc.asked, !.getRow = @ + fr.asked]
  /\ UNCHANGED <<fmVars, admVars, cmpInputs, info, m, tmpA, tmpB, nu, rowPivotCount, I, J, oob>>

\* the pivot search of one pass: the branch taken, the pivot and the two
\* vectors before the scaling by 1 / pivot
acaPlusRowFirst(i_star, bVec) ==
  [rowFirst |-> TRUE, i_star |-> i_star, j_star |-> absoluteMaxIndex(bVec),
   pivot |-> bVec[absoluteMaxIndex(bVec)], bVec |-> bVec,
   aVec |-> updateCol(getCol(absoluteMaxIndex(bVec), ZeroVector(RowCount)),
                      absoluteMaxIndex(bVec), aCols, bCols, k)]
acaPlusColFirst(j_star, aVec) ==
  [rowFirst |-> FALSE, i_star |-> absoluteMaxIndex(aVec), j_star |-> j_star,
   pivot |-> aVec[absoluteMaxIndex(aVec)], aVec |-> aVec,
   bVec |-> updateRow(getRow(absoluteMaxIndex(aVec), ZeroVector(ColCount)),
                      absoluteMaxIndex(aVec), bCols, aCols, k)]
acaPlusPivot ==
  IF RLess(squaredNorm(bRef[absoluteMaxIndex(bRef)]), squaredNorm(aRef[absoluteMaxIndex(aRef)]))
    THEN acaPlusRowFirst(absoluteMaxIndex(aRef),
           updateRow(getRow(absoluteMaxIndex(aRef), ZeroVector(ColCount)),
                     absoluteMaxIndex(aRef), bCols, aCols, k))
    ELSE acaPlusColFirst(absoluteMaxIndex(bRef),
           updateCol(getCol(absoluteMaxIndex(bRef), ZeroVector(RowCount)),
                     absoluteMaxIndex(bRef), aCols, bCols, k))

RECURSIVE findNewRefCol(_, _, _, _)
\* "while (!found) { aRef.clear(); j_ref = findCol(...); if (j_ref == -1) break;
\*   updateCol(aRef, j_ref, aCols, bCols, k); found = !isZero(aRef); }"
findNewRefCol(free, as, bs, asked) ==
  LET fc == findCol(free, ZeroVector(RowCount))
  IN  IF fc.idx = -1
        THEN [idx |-> -1, free |-> fc.free, vec |-> fc.vec, asked |-> asked + fc.asked]
        ELSE LET c == updateCol(fc.vec, fc.idx, as, bs, Len(as))
             IN  IF ~isZero(c)
                   THEN [idx |-> fc.idx, free |-> fc.free, vec |-> c, asked |-> asked + fc.asked]
                   ELSE findNewRefCol(fc.free, as, bs, asked + fc.asked)

\* the update of the references after the pair (aVec, bVec) was pushed:
\* as, bs are aCols, bCols with the new pair, rf, cf the free flags
acaPlusBoth(rf, cf, as, bs, a1, b1) ==
  LET nc == findNewRefCol(cf, as, bs, 0)
  IN  IF nc.idx = -1
        THEN [brk |-> TRUE, aRef |-> nc.vec, bRef |-> b1, i_ref |-> i_ref, j_ref |-> -1,
              rowFree |-> rf, colFree |-> nc.free, getRow |-> 0, getCol |-> nc.asked]
        ELSE LET fr == findMinRow(rf, as, bs, nc.vec, ZeroVector(ColCount))
             IN  [brk |-> fr.idx = -1, aRef |-> nc.vec, bRef |-> fr.vec, i_ref |-> fr.idx,
                  j_ref |-> nc.idx, rowFree |-> fr.free, colFree |-> nc.free,
                  getRow |-> fr.asked, getCol |-> nc.asked]
acaPlusNewB(rf, cf, as, bs, a1, b1) ==
  LET fr == findMinRow(rf, as, bs, a1, ZeroVector(ColCount))
  IN  [brk |-> fr.idx = -1, aRef |-> a1, bRef |-> fr.vec, i_ref |-> fr.idx, j_ref |-> j_ref,
       rowFree |-> fr.free, colFree |-> cf, getRow |-> fr.asked, getCol |-> 0]
acaPlusNewA(rf, cf, as, bs, a1, b1) ==
  LET fcl == findMinCol(cf, as, bs, b1, ZeroVector(RowCount))
  IN  [brk |-> fcl.idx = -1, aRef |-> fcl.vec, bRef |-> b1, i_ref |-> i_ref, j_ref |-> fcl.idx,
       rowFree |-> rf, colFree |-> fcl.free, getRow |-> 0, getCol |-> fcl.asked]
acaPlusKeep(rf, cf, as, bs, a1, b1) ==
  [brk |-> FALSE, aRef |-> a1, bRef |-> b1, i_ref |-> i_ref, j_ref |-> j_ref,
   rowFree |-> rf, colFree |-> cf, getRow |-> 0, getCol |-> 0]

\* needNewA, needNewB
needNewA(a1, j_star) == isZero(a1) \/ j_star = j_ref
needNewB(b1, i_star) == isZero(b1) \/ i_star = i_ref

acaPlusRefresh(rf, cf, as, bs, a1, b1, i_star, j_star) ==
  IF needNewA(a1, j_star) /\ needNewB(b1, i_star) THEN acaPlusBoth(rf, cf, as, bs, a1, b1)
  ELSE IF needNewB(b1, i_star) THEN acaPlusNewB(rf, cf, as, bs, a1, b1)
  ELSE IF needNewA(a1, j_star) THEN acaPlusNewA(rf, cf, as, bs, a1, b1)
  ELSE acaPlusKeep(rf, cf, as, bs, a1, b1)

\* the while condition of the do loop
acaPlusGoesOn(kk) == kk < min(RowCount, ColCount)

\* one pass of the do loop
AcaPlusIter ==
  /\ pc = "AcaPlus"
  /\ \E p \in {acaPlusPivot} :
     \E asked \in {[getRow |-> IF RowAsked(p.i_star) THEN 1 ELSE 0,
                    getCol |-> IF ColAsked(p.j_star) THEN 1 ELSE 0]} :
       IF p.pivot = Zero
         THEN \* HMAT_ASSERT(pivot != Constants<dp_t>::zero)
              /\ pc' = "fatal"
              /\ calls' = HmatAssertFails(IF p.rowFirst
                                             THEN [calls EXCEPT !.getRow = @ + asked.getRow]
                                             ELSE [calls EXCEPT !.getCol = @ + asked.getCol])
              /\ UNCHANGED <<rowFree, colFree, aCols, bCols, estimateSquaredNorm, k,
                             aRef, bRef, i_ref, j_ref, pivots, oob>>
         ELSE \E aVec \in {IF p.rowFirst THEN scale(p.aVec, RDiv(POne, p.pivot)) ELSE p.aVec} :
              \E bVec \in {IF p.rowFirst THEN p.bVec ELSE scale(p.bVec, RDiv(POne, p.pivot))} :
              \E ab_norm_2 \in {RMul(normSqr(aVec), normSqr(bVec))} :
              \E est \in {RAdd(RAdd(estimateSquaredNorm,
                             RMul(Rat(2, 1), crossSum(aVec, bVec, aCols, bCols, k))),
                           ab_norm_2)} :
              \E rf \in {[rowFree EXCEPT ![p.i_star] = FALSE]} :
              \E cf \in {[colFree EXCEPT ![p.j_star] = FALSE]} :
                /\ aCols' = Append(aCols, aVec)
                /\ bCols' = Append(bCols, bVec)
                /\ pivots' = Append(pivots, <<p.i_star, p.j_star>>)
                /\ estimateSquaredNorm' = est
                /\ k' = k + 1
                /\ IF stopTest(ab_norm_2, est)
                     THEN /\ pc' = "AcaPlus_end"
                          /\ rowFree' = rf /\ colFree' = cf
                          /\ calls' = [calls EXCEPT !.getRow = @ + asked.getRow,
                                                    !.getCol = @ + asked.getCol]
                          /\ UNCHANGED <<aRef, bRef, i_ref, j_ref, oob>>
                     ELSE IF i_ref = -1
                       THEN \* aCols[k - 1]->v[i_ref] is read outside the vector
                            /\ pc' = "fault" /\ oob' = TRUE
                            /\ rowFree' = rf /\ colFree' = cf
                            /\ calls' = [calls EXCEPT !.getRow = @ + asked.getRow,
                                                      !.getCol = @ + asked.getCol]
                            /\ UNCHANGED <<aRef, bRef, i_ref, j_ref>>
                     ELSE \E r \in {acaPlusRefresh(rf, cf, Append(aCols, aVec), Append(bCols, bVec),
                                      axpy(aRef, RMul(MOne, bVec[j_ref]), aVec),
                                      axpy(bRef, RMul(MOne, aVec[i_ref]), bVec),
                                      p.i_star, p.j_star)} :
                            /\ aRef' = r.aRef /\ bRef' = r.bRef
                            /\ i_ref' = r.i_ref /\ j_ref' = r.j_ref
                            /\ rowFree' = r.rowFree /\ colFree' = r.colFree
                            /\ calls' = [calls EXCEPT !.getRow = @ + asked.getRow + r.getRow,
                                                      !.getCol = @ + asked.getCol + r.getCol]
                            /\ oob' = oob
                            /\ pc' = IF r.brk THEN "AcaPlus_end"
                                     ELSE IF acaPlusGoesOn(k + 1) THEN "AcaPlus"
                                     ELSE "AcaPlus_end"
  /\ UNCHANGED <<fmVars, admVars, cmpInputs, info, m, tmpA, tmpB, nu, rowPivotCount, I, J, rk>>

\* the RkMatrix built after the loop
acaPlusRk(kk) ==
  RkMatrix(New(FullMatrix(RowCount, kk, SubSeq(aCols, 1, kk))),
           New(FullMatrix(ColCount, kk, SubSeq(bCols, 1, kk))), "AcaPlus")

AcaPlusEnd ==
  /\ pc = "AcaPlus_end"
  /\ rk' = acaPlusRk(k)
  /\ pc' = "return"
  /\ UNCHANGED <<fmVars, admVars, cmpInputs, info, calls, cmpLocals, oob>>

\* compress() returns: with HMatrix::validateCompression the block is assembled
\* once more and compared with rk, which is left as it is; then the
\* ClusterAssemblyFunction is destroyed
CompressReturn ==
  /\ pc = "return"
  /\ \E validateCompression \in BOOLEAN :
       calls' = [calls EXCEPT
                   !.assemble = @ + (IF validateCompression /\ info.block_type # "hmat_block_null"
                                       THEN 1 ELSE 0),
                   !.releaseBlock = @ + 1]
  /\ pc' = "done"
  /\ UNCHANGED <<fmVars, admVars, cmpInputs, info, cmpLocals, oob, rk>>

NextCompress ==
  \/ Compress
  \/ CompressNoCompression
  \/ CompressSvd
  \/ AcaFullBegin
  \/ AcaFullIter
  \/ AcaFullEnd
  \/ AcaPartialBegin
  \/ AcaPartialIter
  \/ AcaPartialEnd
  \/ AcaPlusBegin
  \/ AcaPlusIter
  \/ AcaPlusEnd
  \/ CompressReturn

SpecCompress == InitCompress /\ [][NextCompress]_vars

(***************************************************************************)
(* Vocabulary of the properties of compress.                               *)
(***************************************************************************)
FourMethods == {"Svd", "AcaFull", "AcaPartial", "AcaPlus"}
CrossMethods == {"AcaFull", "AcaPartial", "AcaPlus"}

\* compress has returned rk to its caller
Returned == pc = "done"
\* compress has ended, by a return or otherwise
Ended == pc \in {"done", "fatal", "fault"}

\* the RkMatrix returned
Rk == Deref(rk)
RkEmpty(r) == r.a = NULL /\ r.b = NULL
RkRank(r) == IF r.a = NULL THEN 0 ELSE Deref(r.a).cols

ZeroKernel == \A i \in 0..(RowCount - 1) : \A j \in 0..(ColCount - 1) : kernel.m[i][j] = Zero

\* the kernel is u * v^T for two non-zero vectors: it is not zero and all its
\* 2 x 2 minors are
RankOneKernel ==
  /\ ~ZeroKernel
  /\ \A i1, i2 \in 0..(RowCount - 1) : \A j1, j2 \in 0..(ColCount - 1) :
       RMul(kernel.m[i1][j1], kernel.m[i2][j2]) = RMul(kernel.m[i1][j2], kernel.m[i2][j1])

RECURSIVE RkEntryTo(_, _, _, _)
RkEntryTo(r, i, j, l) ==
  IF l = 0 THEN Zero ELSE RAdd(RkEntryTo(r, i, j, l - 1), RMul(Deref(r.a).m[l][i], Deref(r.b).m[l][j]))
\* entry (i, j) of A * B^T, for the Rk of a cross approximation
RkEntry(r, i, j) == IF RkEmpty(r) THEN Zero ELSE RkEntryTo(r, i, j, Deref(r.a).cols)

RkIsKernel == \A i \in 0..(RowCount - 1) : \A j \in 0..(ColCount - 1) :
                RkEntry(Rk, i, j) = kernel.m[i][j]

RECURSIVE SumSqrTo(_, _)
\* the sum of the squares of the first n entries of e, e[0] .. e[n - 1]
SumSqrTo(e, n) ==
  IF n = 0 THEN Zero ELSE RAdd(SumSqrTo(e, n - 1), RMul(e[n - 1], e[n - 1]))

\* the squared Frobenius norm of M, the block, and of M - A * B^T
KernelNormSqr ==
  SumSqrTo([x \in 0..(RowCount * ColCount - 1) |->
              kernel.m[x \div ColCount][x % ColCount]], RowCount * ColCount)
ErrorNormSqr ==
  SumSqrTo([x \in 0..(RowCount * ColCount - 1) |->
              RAdd(kernel.m[x \div ColCount][x % ColCount],
                   RMul(MOne, RkEntry(Rk, x \div ColCount, x % ColCount)))],
           RowCount * ColCount)

\* r is empty, or A is rows x k and B is cols x k with k >= 1
WellShaped(r) ==
  \/ RkEmpty(r)
  \/ /\ r.a # NULL /\ r.b # NULL
     /\ Deref(r.a).rows = RowCount /\ Deref(r.b).rows = ColCount
     /\ Deref(r.a).cols = Deref(r.b).cols /\ Deref(r.a).cols >= 1
     /\ method \in CrossMethods =>
          /\ Len(Deref(r.a).m) = Deref(r.a).cols
          /\ Len(Deref(r.b).m) = Deref(r.b).cols
          /\ \A l \in 1..Deref(r.a).cols : DOMAIN Deref(r.a).m[l] = 0..(RowCount - 1)
          /\ \A l \in 1..Deref(r.b).cols : DOMAIN Deref(r.b).m[l] = 0..(ColCount - 1)

(***************************************************************************)
(* Properties of compress.                                                 *)
(***************************************************************************)
\* C1: for each of Svd, AcaFull, AcaPartial and AcaPlus, the Rk that compress
\* builds is empty (A and B both absent) or has A with rows.size rows, B with
\* cols.size rows and A.cols = B.cols = k >= 1; never one factor alone.
RkShape == (rk # NULL /\ method \in FourMethods) => WellShaped(Rk)
\* a rank-2 Rk has been returned by AcaPlus
RkShapeWitness == Returned /\ method = "AcaPlus" /\ RkRank(Rk) = 2 /\ Rk.b # NULL

\* C2: compressing a block whose entries are all zero ends with the return
\* of an empty Rk, for each of the four methods and every shape.
ZeroBlockEmpty ==
  (ZeroKernel /\ method \in FourMethods /\ Ended) => (Returned /\ RkEmpty(Rk))
\* the same without AcaPartial, the only method that can end otherwise
ZeroBlockEmptyButPartial ==
  (ZeroKernel /\ method \in {"Svd", "AcaFull", "AcaPlus"} /\ Ended)
    => (Returned /\ RkEmpty(Rk))
\* AcaPartial on a zero block: when it returns, the Rk is empty
ZeroBlockEmptyIfReturned ==
  (ZeroKernel /\ method = "AcaPartial" /\ Returned) => RkEmpty(Rk)

\* C3: the tag of the Rk returned equals the method asked for, for each of
\* the four methods, the Rk being empty or not.
TagIsMethod == (rk # NULL /\ method \in FourMethods) => Rk.method = method
\* the tag is the method for the three cross approximations and for a
\* non-empty Rk of Svd
TagIsMethodButEmptySvd ==
  (rk # NULL /\ (method \in CrossMethods \/ ~RkEmpty(Rk))) => Rk.method = method

\* C4: for a block u * v^T, u and v non-zero, AcaFull, AcaPartial and AcaPlus
\* return an Rk of rank 1 with A * B^T equal to the block, whatever the
\* tolerance and the zero entries of u and v.
RankOneExact ==
  (RankOneKernel /\ method \in CrossMethods /\ Returned)
    => (RkRank(Rk) = 1 /\ RkIsKernel)
\* AcaFull and AcaPlus always end by such a return
RankOneExactFullPlus ==
  (RankOneKernel /\ method \in {"AcaFull", "AcaPlus"} /\ Ended)
    => (Returned /\ RkRank(Rk) = 1 /\ RkIsKernel)
\* AcaPartial returns an empty Rk for a rank-1 block
RankOneLost == RankOneKernel /\ method = "AcaPartial" /\ Returned /\ RkEmpty(Rk)

\* C5: for every method, the rank of the Rk returned is at most
\* min(rows.size, cols.size).
RankAtMostMin == rk # NULL => RkRank(Rk) <= min(RowCount, ColCount)
\* AcaFull has returned an Rk of rank 2 for a block of three columns
RankAtMostMinWitness ==
  Returned /\ method = "AcaFull" /\ RkRank(Rk) = 2 /\ RowCount = 2 /\ ColCount = 3

\* C6: when approx.k is positive, the rank of the Rk returned by AcaFull,
\* AcaPartial and AcaPlus is at most approx.k.
RankAtMostK ==
  (rk # NULL /\ approxK > 0 /\ method \in CrossMethods) => RkRank(Rk) <= approxK
\* the same for AcaFull alone, the only one that reads approx.k
RankAtMostKFull ==
  (rk # NULL /\ approxK > 0 /\ method = "AcaFull") => RkRank(Rk) <= approxK

\* C7: the Rk returned satisfies ||M - A B^T|| <= epsilon ||M|| + tau with
\* tau = 10 epsilon ||M||, that is ||M - A B^T||^2 <= 121 epsilon^2 ||M||^2;
\* stated for the cross approximations, whose factors are computed exactly,
\* when approx.k does not cap the rank.
ErrorWithinTolerance ==
  (Returned /\ method \in CrossMethods /\ approxK = 0)
    => ~RLess(RMul(Rat(121, 1), RMul(eps2, KernelNormSqr)), ErrorNormSqr)
\* the same for AcaFull and AcaPlus alone
ErrorWithinToleranceFullPlus ==
  (Returned /\ method \in {"AcaFull", "AcaPlus"} /\ approxK = 0)
    => ~RLess(RMul(Rat(121, 1), RMul(eps2, KernelNormSqr)), ErrorNormSqr)
\* AcaPartial returns an empty Rk for a non-zero block with epsilon = 1/20
ErrorAboveTolerance ==
  /\ Returned /\ method = "AcaPartial" /\ approxK = 0 /\ eps2 = <<1, 400>>
  /\ ~ZeroKernel /\ RkEmpty(Rk)

(***************************************************************************)
(* StandardAdmissibilityCondition (admissibility.cpp).                     *)
(***************************************************************************)
\* the cluster tree: two nodes
AdmNodes == {1, 2}
\* the points of a node, by their coordinate on one axis
Clusters(lo, hi) == {c \in SUBSET (lo..hi) : Cardinality(c) \in 1..MaxSize}
RowClusters == Clusters(0, MaxCoord \div 2 - 1)
ColClusters == Clusters(MaxCoord \div 2, MaxCoord)
Etas == {1, 2}
MaxElementsChoices == {4}

\* AxisAlignedBoundingBox(data): the smallest box around the points
AxisAlignedBoundingBox(points) ==
  [bbMin |-> CHOOSE x \in points : \A y \in points : x <= y,
   bbMax |-> CHOOSE x \in points : \A y \in points : y <= x]
diameter(box) == box.bbMax - box.bbMin
distanceTo(box, other) ==
  IF box.bbMax < other.bbMin THEN other.bbMin - box.bbMax
  ELSE IF other.bbMax < box.bbMin THEN box.bbMin - other.bbMax
  ELSE 0

\* no compress call
CmpUnused ==
  /\ method = "NoCompression" /\ kernel = [rows |-> 0, cols |-> 0, m |-> <<>>]
  /\ eps2 = Zero /\ approxK = 0 /\ info = NULL /\ pc = "idle" /\ calls = NoCalls
  /\ NoLocals /\ oob = FALSE /\ rk = NULL

\* StandardAdmissibilityCondition(eta, maxElementsPerBlock) over a fresh tree;
\* the constructor leaves always_ as it finds it
InitAdm ==
  /\ compressionMethod \in Methods
  /\ eta_ \in Etas
  /\ maxElementsPerBlock \in MaxElementsChoices
  /\ always_ \in BOOLEAN
  /\ built = [n \in AdmNodes |-> 0]
  /\ released = [n \in AdmNodes |-> 0]
  /\ \E rc \in RowClusters : \E cc \in ColClusters : data = <<rc, cc>>
  /\ admissibilityAlgoData_ = [n \in AdmNodes |-> NULL]
  /\ admCall = NULL
  /\ CmpUnused /\ FmUnused

\* isFullAlgo of isAdmissible
isFullAlgo(mth) == ~(mth = "AcaPartial" \/ mth = "AcaPlus")

\* a variant asking both clusters to be small (sensitivity of SmallNotAdmissible)
tooSmallBoth(rowsSize, colsSize) == rowsSize < 2 /\ colsSize < 2

\* the test on the sizes
tooSmall(rowsSize, colsSize) == rowsSize < 2 \/ colsSize < 2

\* a variant with a strict comparison (sensitivity of HackbuschIff)
hackbuschStrict(eta, rows_bbox, cols_bbox) ==
  min(diameter(rows_bbox), diameter(cols_bbox)) < eta * distanceTo(rows_bbox, cols_bbox)

\* the value returned at the end of isAdmissible
hackbusch(eta, rows_bbox, cols_bbox) ==
  min(diameter(rows_bbox), diameter(cols_bbox)) <= eta * distanceTo(rows_bbox, cols_bbox)

\* a variant that builds a box whether or not the node has one (sensitivity
\* of CleanReleases)
withBoxAnew(st, n) ==
  [cache |-> [st.cache EXCEPT ![n] = New(AxisAlignedBoundingBox(data[n]))],
   built |-> [st.built EXCEPT ![n] = @ + 1]]

\* the side channels and the boxes built, once node n has its box
withBox(st, n) ==
  IF st.cache[n] = NULL
    THEN [cache |-> [st.cache EXCEPT ![n] = New(AxisAlignedBoundingBox(data[n]))],
          built |-> [st.built EXCEPT ![n] = @ + 1]]
    ELSE st

\* a variant that builds the two boxes before the tests on the sizes
\* (sensitivity of BoxBuiltOnce)
isAdmissibleBoxesFirst(rows, cols) ==
  LET withRows == withBox([cache |-> admissibilityAlgoData_, built |-> built], rows)
      withCols == withBox(withRows, cols)
  IN  IF isFullAlgo(compressionMethod)
           /\ Cardinality(data[rows]) * Cardinality(data[cols]) > maxElementsPerBlock
        THEN [result |-> FALSE, cache |-> withCols.cache, built |-> withCols.built]
      ELSE IF tooSmall(Cardinality(data[rows]), Cardinality(data[cols]))
        THEN [result |-> FALSE, cache |-> withCols.cache, built |-> withCols.built]
      ELSE [result |-> hackbusch(eta_, Deref(withCols.cache[rows]),
                                 Deref(withCols.cache[cols])),
            cache |-> withCols.cache, built |-> withCols.built]

\* isAdmissible(rows, cols): what it returns, the side channels it leaves and
\* the boxes built so far
isAdmissible(rows, cols) ==
  IF isFullAlgo(compressionMethod)
       /\ Cardinality(data[rows]) * Cardinality(data[cols]) > maxElementsPerBlock
    THEN [result |-> FALSE, cache |-> admissibilityAlgoData_, built |-> built]
  ELSE IF tooSmall(Cardinality(data[rows]), Cardinality(data[cols]))
    THEN [result |-> FALSE, cache |-> admissibilityAlgoData_, built |-> built]
  ELSE LET withRows == withBox([cache |-> admissibilityAlgoData_, built |-> built], rows)
           withCols == withBox(withRows, cols)
       IN  [result |-> hackbusch(eta_, Deref(withCols.cache[rows]),
                                 Deref(withCols.cache[cols])),
            cache |-> withCols.cache, built |-> withCols.built]

IsAdmissibleCall(rows, cols) ==
  /\ UNCHANGED <<released, eta_, always_, compressionMethod, maxElementsPerBlock, data>>
  /\ \E r \in {isAdmissible(rows, cols)} :
       /\ admissibilityAlgoData_' = r.cache
       /\ built' = r.built
       /\ admCall' = New([rows |-> rows, cols |-> cols, method |-> compressionMethod,
                          eta |-> eta_, always |-> always_, result |-> r.result])
  /\ UNCHANGED <<cmpVars, fmVars>>

IsAdmissible == \E rows \in AdmNodes : \E cols \in AdmNodes : IsAdmissibleCall(rows, cols)

\* setEta(eta)
SetEta ==
  /\ \E eta \in Etas : eta_' = eta
  /\ UNCHANGED <<cmpVars, fmVars, compressionMethod, maxElementsPerBlock, data,
                 admissibilityAlgoData_, admCall, always_, built, released>>

\* setAlways(b)
SetAlways ==
  /\ \E b \in BOOLEAN : always_' = b
  /\ UNCHANGED <<cmpVars, fmVars, compressionMethod, eta_, maxElementsPerBlock, data,
                 admissibilityAlgoData_, admCall, built, released>>

\* clean(current): the box of the node is deleted, its side channel emptied
CleanNode(current) ==
  /\ admissibilityAlgoData_[current] = NULL \/ released[current] < MaxCleans
  /\ UNCHANGED <<built, eta_, always_, admCall, compressionMethod, maxElementsPerBlock, data>>
  /\ released' = [released EXCEPT ![current] =
                    @ + (IF admissibilityAlgoData_[current] # NULL THEN 1 ELSE 0)]
  /\ admissibilityAlgoData_' = [admissibilityAlgoData_ EXCEPT ![current] = NULL]
  /\ UNCHANGED <<cmpVars, fmVars>>

Clean == \E current \in AdmNodes : CleanNode(current)

NextAdm ==
  \/ IsAdmissible
  \/ SetEta
  \/ SetAlways
  \/ Clean

SpecAdm == InitAdm /\ [][NextAdm]_vars

(***************************************************************************)
(* Vocabulary of the properties of isAdmissible.                           *)
(***************************************************************************)
Called == admCall # NULL
Call == Deref(admCall)
RowsSize == Cardinality(data[Call.rows])
ColsSize == Cardinality(data[Call.cols])
RowsBox == AxisAlignedBoundingBox(data[Call.rows])
ColsBox == AxisAlignedBoundingBox(data[Call.cols])
\* the formula of Hackbusch for the clusters and the eta of the call
Hackbusch ==
  min(diameter(RowsBox), diameter(ColsBox)) <= Call.eta * distanceTo(RowsBox, ColsBox)
\* the call went past the two tests on the sizes
PassedGates ==
  /\ ~(isFullAlgo(Call.method) /\ RowsSize * ColsSize > maxElementsPerBlock)
  /\ RowsSize >= 2 /\ ColsSize >= 2
\* the diameters of the two boxes, their distance and eta are these
Geometry(dr, dc, dist, eta) ==
  /\ diameter(RowsBox) = dr /\ diameter(ColsBox) = dc
  /\ distanceTo(RowsBox, ColsBox) = dist /\ Call.eta = eta

(***************************************************************************)
(* Properties of isAdmissible.                                             *)
(***************************************************************************)
\* C8: isAdmissible returns false whenever rows.size < 2 or cols.size < 2,
\* whatever eta, the compression method, the element limit and the geometry.
SmallNotAdmissible ==
  (Called /\ (RowsSize < 2 \/ ColsSize < 2)) => Call.result = FALSE
\* a call with a single row point that the other tests would have accepted
SmallNotAdmissibleWitness ==
  /\ Called /\ RowsSize = 1 /\ ColsSize = 2 /\ Hackbusch
  /\ Call.method = "AcaPlus" /\ Call.result = FALSE

\* C9: the test on the number of elements applies exactly for Svd and
\* AcaFull: with them isAdmissible returns false when rows.size * cols.size >
\* maxElementsPerBlock; with AcaPartial, AcaPlus and NoCompression the
\* product has no part in the result, which the sizes and the formula give.
GateForFullOnly ==
  Called =>
    /\ (Call.method \in {"Svd", "AcaFull"} /\ RowsSize * ColsSize > maxElementsPerBlock)
         => Call.result = FALSE
    /\ Call.method \notin {"Svd", "AcaFull"}
         => (Call.result <=> (RowsSize >= 2 /\ ColsSize >= 2 /\ Hackbusch))
\* what the code does: NoCompression is under the test as well
GateForFull ==
  Called =>
    /\ (Call.method \notin {"AcaPartial", "AcaPlus"}
          /\ RowsSize * ColsSize > maxElementsPerBlock)
         => Call.result = FALSE
    /\ Call.method \in {"AcaPartial", "AcaPlus"}
         => (Call.result <=> (RowsSize >= 2 /\ ColsSize >= 2 /\ Hackbusch))
\* with NoCompression, a pair over the limit that the formula accepts is refused
GateForFullWitness ==
  /\ Called /\ Call.method = "NoCompression" /\ RowsSize * ColsSize > maxElementsPerBlock
  /\ RowsSize >= 2 /\ ColsSize >= 2 /\ Hackbusch /\ Call.result = FALSE

\* C10: for a pair that went past both tests on the sizes, isAdmissible
\* returns true iff min(diameter(rows), diameter(cols)) <= eta * distance;
\* diameters (1, 1) at distance 4 with eta 2 give true, and diameters (2, 3)
\* at distance 1 with eta 2 give true as well, 2 <= 2 * 1.
HackbuschIff ==
  (Called /\ PassedGates) =>
    /\ Call.result <=> Hackbusch
    /\ Geometry(1, 1, 4, 2) => Call.result = TRUE
    /\ Geometry(2, 3, 1, 2) => Call.result = TRUE
\* the pair of diameters (2, 3) at distance 1 with eta 2 has been accepted
HackbuschIffWitness ==
  Called /\ PassedGates /\ Geometry(2, 3, 1, 2) /\ Call.result = TRUE
\* C10 as stated: diameters (2, 3) at distance 1 with eta 2 give false
HackbuschIffStated ==
  (Called /\ PassedGates) =>
    /\ Call.result <=> Hackbusch
    /\ Geometry(1, 1, 4, 2) => Call.result = TRUE
    /\ Geometry(2, 3, 1, 2) => Call.result = FALSE

\* C11: when always_ is set, isAdmissible returns true for every pair that
\* went past the tests on the sizes, whatever eta and the boxes.
AlwaysAdmissible == (Called /\ Call.always /\ PassedGates) => Call.result = TRUE
\* with always_ set, a pair past the tests on the sizes has been refused
AlwaysIgnored == Called /\ Call.always /\ PassedGates /\ Call.result = FALSE
\* what the code does: always_ has no part in the result
AlwaysNoPart == (Called /\ PassedGates) => (Call.result <=> Hackbusch)

\* every box built for a node has been deleted, but the one in its side channel
BoxesBalanced ==
  \A n \in AdmNodes :
    /\ built[n] - released[n] = (IF admissibilityAlgoData_[n] # NULL THEN 1 ELSE 0)
    /\ admissibilityAlgoData_[n] # NULL
         => Deref(admissibilityAlgoData_[n]) = AxisAlignedBoundingBox(data[n])
\* the call isAdmissible(rows, cols) goes past the tests on the sizes
Passes(rows, cols) ==
  /\ ~(isFullAlgo(compressionMethod)
         /\ Cardinality(data[rows]) * Cardinality(data[cols]) > maxElementsPerBlock)
  /\ Cardinality(data[rows]) >= 2 /\ Cardinality(data[cols]) >= 2

\* C12: after any isAdmissible calls, clean(N) deletes the box in the side
\* channel of N and leaves the side channel empty; a second clean(N) deletes
\* nothing; a later isAdmissible on N that goes past the tests on the sizes
\* builds the box again.  No box is deleted twice and none is lost.
CleanReleases ==
  /\ []BoxesBalanced
  /\ [][\A n \in AdmNodes :
          /\ CleanNode(n) =>
               /\ admissibilityAlgoData_'[n] = NULL
               /\ released'[n] = built[n]
               /\ admissibilityAlgoData_[n] = NULL => released'[n] = released[n]
          /\ \A o \in AdmNodes :
               (Passes(n, o) /\ IsAdmissibleCall(n, o))
               => \A x \in {n, o} :
                    /\ admissibilityAlgoData_'[x] = New(AxisAlignedBoundingBox(data[x]))
                    /\ built'[x] =
                         built[x] + (IF admissibilityAlgoData_[x] = NULL THEN 1 ELSE 0)]_vars
\* the box of node 1 has been deleted by clean and built again since
CleanReleasesWitness ==
  released[1] = 1 /\ built[1] = 2 /\ admissibilityAlgoData_[1] # NULL

(***************************************************************************)
(* findCol called on its own, on any block, any flags and any vector.      *)
(***************************************************************************)
VectorsOf(n) == {[i \in 0..(n - 1) |-> Rat(f[i], 1)] : f \in [0..(n - 1) -> Vals]}

InitFindCol ==
  /\ method = "AcaPlus"
  /\ kernel \in Blocks
  /\ eps2 = Zero /\ approxK = 0
  /\ info \in BlockInfos(kernel)
  /\ pc = "findCol"
  /\ calls = [NoCalls EXCEPT !.prepareBlock = 1]
  /\ m = NULL /\ tmpA = <<>> /\ tmpB = <<>> /\ nu = 0
  /\ estimateSquaredNorm = Zero
  /\ rowFree = <<>> /\ rowPivotCount = 0
  /\ aCols = <<>> /\ bCols = <<>> /\ I = 0 /\ J = 0 /\ k = 0
  /\ bRef = <<>> /\ i_ref = 0 /\ j_ref = 0 /\ pivots = <<>>
  /\ colFree \in [0..(ColCount - 1) -> BOOLEAN]
  /\ aRef \in VectorsOf(RowCount)
  /\ oob = FALSE
  /\ rk = NULL
  /\ AdmUnused /\ FmUnused

\* "j_ref = findCol(block, colFree, aRef);"
FindColCall ==
  /\ pc = "findCol"
  /\ \E fc \in {findCol(colFree, aRef)} :
       /\ j_ref' = fc.idx
       /\ colFree' = fc.free
       /\ aRef' = fc.vec
       /\ calls' = [calls EXCEPT !.getCol = @ + fc.asked]
  /\ pc' = "findCol_done"
  /\ UNCHANGED <<fmVars, admVars, cmpInputs, info, m, tmpA, tmpB, nu, estimateSquaredNorm, rowFree,
                 rowPivotCount, aCols, bCols, I, J, k, bRef, i_ref, pivots, oob, rk>>

NextFindCol == FindColCall

SpecFindCol == InitFindCol /\ [][NextFindCol]_vars

\* C13: findCol returns -1 or a column that was free when it was called, and
\* that column is marked used when it returns.
FindColFree ==
  [][FindColCall => \/ j_ref' = -1
                    \/ /\ j_ref' \in 0..(ColCount - 1)
                       /\ colFree[j_ref']
                       /\ ~colFree'[j_ref']]_vars
\* findCol went past column 0, used and not zero, to return column 1
FindColFreeWitness ==
  /\ pc = "findCol_done" /\ j_ref = 1
  /\ ~isZero(KernelCol(0)) /\ ~colFree[1]

\* compressAcaPartial or compressAcaPlus stands between two passes of its do
\* loop, or has left it
AtLoopBoundary ==
  /\ method \in {"AcaPartial", "AcaPlus"}
  /\ pc \in {"AcaPartial", "AcaPartial_end", "AcaPlus", "AcaPlus_end", "return", "done"}
Distinct(seq, c) == \A a, b \in DOMAIN seq : a # b => seq[a][c] # seq[b][c]

\* C14: between two passes of the do loop of compressAcaPartial and of
\* compressAcaPlus, and after it, aCols and bCols both hold k vectors, and the
\* pivots accepted so far lie on pairwise distinct rows and pairwise distinct
\* columns.
PivotsDistinct ==
  AtLoopBoundary =>
    /\ Len(aCols) = k /\ Len(bCols) = k /\ Len(pivots) = k
    /\ Distinct(pivots, 1) /\ Distinct(pivots, 2)
\* two pivots have been accepted
PivotsDistinctWitness ==
  /\ AtLoopBoundary /\ pc = "done" /\ k = 2 /\ Len(pivots) = 2

\* the getRow, getCol and assemble calls that reached the kernel
CallbackCount == calls.getRow + calls.getCol + calls.assemble

ScopedBlockButFault ==
  /\ calls.prepareBlock = (IF pc = "call" THEN 0 ELSE 1)
  /\ pc = "call" => CallbackCount = 0
  /\ calls.releaseBlock = (IF pc \in {"done", "fatal"} THEN 1 ELSE 0)

Sparse == pc # "call" /\ info.block_type = "hmat_block_sparse"

MaxDim == 2
MaxOps == 3

MatIds == {1, 2}
MatShapes == (1..MaxDim) \X (1..MaxDim)
Alphas == {Zero, Rat(2, 1)}

\* calloc / malloc / new: one more block; free / delete: the block is freed
\* once more; a block keeps what was last stored in it
Calloc(h, content) == Append(h, [external |-> FALSE, frees |-> 0, v |-> content])
Free(h, b) == [h EXCEPT ![b].frees = @ + 1]
Store(h, b, content) == [h EXCEPT ![b].v = content]
Top(h) == Len(h)

\* FullMatrix(T* _m, int _rows, int _cols, int _lda): a view of the block b
FullMatrixView(b, r, c) ==
  [ownsMemory |-> FALSE, triUpper_ |-> FALSE, triLower_ |-> FALSE,
   m |-> b, rows |-> r, cols |-> c, lda |-> r, pivots |-> NULL, diagonal |-> NULL]
\* FullMatrix(int _rows, int _cols), b the block it has allocated
FullMatrixNew(b, r, c) ==
  [ownsMemory |-> TRUE, triUpper_ |-> FALSE, triLower_ |-> FALSE,
   m |-> b, rows |-> r, cols |-> c, lda |-> r, pivots |-> NULL, diagonal |-> NULL]
\* Vector(int _rows), b the block it has allocated
VectorNew(b, n) == [ownsMemory |-> TRUE, v |-> b, rows |-> n]
\* Vector(T* _v, int _rows)
VectorView(b, n) == [ownsMemory |-> FALSE, v |-> b, rows |-> n]

\* the elements of the matrix x, the elements of its diagonal
Elts(h, x) == h[x.m].v
DiagElts(h, x) == h[Deref(x.diagonal).v].v

\* FullMatrix::clear()
clear(h, x) ==
  LET h1 == Store(h, x.m, ZeroMatrix(x.rows, x.cols))
  IN  IF x.diagonal # NULL THEN Store(h1, Deref(x.diagonal).v, ZeroVector(x.rows)) ELSE h1

\* FullMatrix::scale(alpha), lda == rows
scaleFullMatrix(h, x, alpha) ==
  LET h1 == IF alpha = Zero THEN clear(h, x)
            ELSE Store(h, x.m, [i \in 0..(x.rows - 1) |-> scaleMul(Elts(h, x)[i], alpha)])
  IN  IF x.diagonal # NULL
        THEN Store(h1, Deref(x.diagonal).v, scaleMul(DiagElts(h1, x), alpha))
        ELSE h1

\* the flags after "if (triUpper_) {...} else if (triLower_) {...}"
transposeFlags(x) ==
  IF x.triUpper_ THEN [x EXCEPT !.triUpper_ = FALSE, !.triLower_ = TRUE]
  ELSE IF x.triLower_ THEN [x EXCEPT !.triLower_ = FALSE, !.triUpper_ = TRUE]
  ELSE x

\* FullMatrix::transpose(), without MKL: in place when square, else through
\* a temporary matrix that is destroyed on return
transpose(h, x) ==
  LET a == Elts(h, x)
      t == [i \in 0..(x.cols - 1) |-> [j \in 0..(x.rows - 1) |-> a[j][i]]]
      h1 == IF x.rows = x.cols THEN h ELSE Free(Calloc(h, a), Top(h) + 1)
  IN  [h |-> Store(h1, x.m, t),
       x |-> transposeFlags([x EXCEPT !.rows = x.cols, !.cols = x.rows, !.lda = x.cols])]

\* FullMatrix::copy(result): result is NULL or a matrix of the same size
copy(h, x, result) ==
  LET h1 == IF result = NULL THEN Calloc(h, ZeroMatrix(x.rows, x.cols)) ELSE h
      r1 == IF result = NULL THEN FullMatrixNew(Top(h1), x.rows, x.cols) ELSE Deref(result)
      h2 == Store(h1, r1.m, Elts(h, x))
      h3 == IF x.diagonal # NULL /\ r1.diagonal = NULL
              THEN Calloc(h2, ZeroVector(x.rows)) ELSE h2
      r2 == IF x.diagonal # NULL /\ r1.diagonal = NULL
              THEN [r1 EXCEPT !.diagonal = New(VectorNew(Top(h3), x.rows))] ELSE r1
      h4 == IF x.diagonal # NULL THEN Store(h3, Deref(r2.diagonal).v, DiagElts(h, x)) ELSE h3
  IN  [h |-> h4, x |-> [r2 EXCEPT !.triLower_ = x.triLower_, !.triUpper_ = x.triUpper_]]

\* FullMatrix::~FullMatrix()
destroy(h, x) ==
  LET h1 == IF x.ownsMemory THEN Free(h, x.m) ELSE h
      h2 == IF x.pivots # NULL THEN Free(h1, Deref(x.pivots)) ELSE h1
  IN  IF x.diagonal # NULL THEN Free(h2, Deref(x.diagonal).v) ELSE h2

\* get(row, col) = value
Put(a, row, col, value) == [a EXCEPT ![row][col] = value]
RSub(x, y) == RAdd(x, RMul(MOne, y))

RECURSIVE ldltSum(_, _, _, _)
\* sum over i < n of get(r, i) * v[i], where v[i] = get(j, i) * get(i, i)
ldltSum(a, r, j, n) ==
  IF n = 0 THEN Zero
  ELSE RAdd(ldltSum(a, r, j, n - 1), RMul(a[r][n - 1], RMul(a[j][n - 1], a[n - 1][n - 1])))

RECURSIVE ldltColumns(_, _, _)
\* the loop "for (int j = 0; j < n; j++)" of ldltDecomposition from column j
\* on; ok is FALSE when HMAT_ASSERT_MSG(v[j] != zero) fails
ldltColumns(a, j, n) ==
  IF j = n THEN [ok |-> TRUE, a |-> a]
  ELSE LET vj == RSub(a[j][j], ldltSum(a, j, j, j))
           a1 == [r \in 0..(n - 1) |->
                    [c \in 0..(n - 1) |->
                       IF r = j /\ c = j THEN vj
                       ELSE IF c = j /\ r > j THEN RSub(a[r][j], ldltSum(a, r, j, j))
                       ELSE a[r][c]]]
       IN  IF j + 1 < n /\ vj = Zero THEN [ok |-> FALSE, a |-> a1]
           ELSE ldltColumns([r \in 0..(n - 1) |->
                               [c \in 0..(n - 1) |->
                                  IF c = j /\ r > j THEN RDiv(a1[r][j], vj) ELSE a1[r][c]]],
                            j + 1, n)

\* a variant without "get(i,i) = Constants<T>::pone"
ldltUnitKept(a, n) ==
  [r \in 0..(n - 1) |-> [c \in 0..(n - 1) |-> IF c > r THEN Zero ELSE a[r][c]]]
\* the last loop of ldltDecomposition: the matrix with ones on its diagonal
\* and zeros above it
ldltUnit(a, n) ==
  [r \in 0..(n - 1) |-> [c \in 0..(n - 1) |->
     IF r = c THEN POne ELSE IF c > r THEN Zero ELSE a[r][c]]]

\* FullMatrix::ldltDecomposition() on a square matrix: a new diagonal, the
\* scratch array v, the factorization; the flags are set only when no pivot
\* is zero
ldltDecomposition(h, x) ==
  LET n == x.rows
      h1 == Calloc(h, ZeroVector(n))
      x1 == [x EXCEPT !.diagonal = New(VectorNew(Top(h1), n))]
      h2 == Calloc(h1, ZeroVector(n))
      f == ldltColumns(Elts(h, x), 0, n)
  IN  IF ~f.ok
        THEN [ok |-> FALSE, h |-> Store(h2, x.m, f.a), x |-> x1]
        ELSE [ok |-> TRUE,
              h |-> Free(Store(Store(h2, x.m, ldltUnit(f.a, n)),
                               Top(h1), [i \in 0..(n - 1) |-> f.a[i][i]]),
                         Top(h2)),
              x |-> [x1 EXCEPT !.triLower_ = TRUE]]

\* the square root of a rational, when it is a rational
HasSqrt(r) == /\ \E p \in 0..Abs(r[1]) : p * p = r[1]
              /\ \E q \in 1..r[2] : q * q = r[2]
Sqrt(r) == Rat(CHOOSE p \in 0..Abs(r[1]) : p * p = r[1], CHOOSE q \in 1..r[2] : q * q = r[2])

RECURSIVE potrfSum(_, _, _, _)
\* sum over l < n of a[r][l] * a[j][l]
potrfSum(a, r, j, n) ==
  IF n = 0 THEN Zero ELSE RAdd(potrfSum(a, r, j, n - 1), RMul(a[r][n - 1], a[j][n - 1]))

RECURSIVE potrfColumns(_, _, _)
\* LAPACK potrf('L', n, a, lda) from column j on: info is 0 or the order of
\* the leading minor that is not positive definite; exact is FALSE when a
\* square root is not a rational
potrfColumns(a, j, n) ==
  IF j = n THEN [info |-> 0, a |-> a, exact |-> TRUE]
  ELSE LET d == RSub(a[j][j], potrfSum(a, j, j, j))
       IN  IF ~RLess(Zero, d) THEN [info |-> j + 1, a |-> Put(a, j, j, d), exact |-> TRUE]
           ELSE IF ~HasSqrt(d) THEN [info |-> 0, a |-> a, exact |-> FALSE]
           ELSE potrfColumns([r \in 0..(n - 1) |->
                                [c \in 0..(n - 1) |->
                                   IF r = j /\ c = j THEN Sqrt(d)
                                   ELSE IF c = j /\ r > j
                                     THEN RDiv(RSub(a[r][j], potrfSum(a, r, j, j)), Sqrt(d))
                                   ELSE a[r][c]]],
                             j + 1, n)
potrf(a, n) == potrfColumns(a, 0, n)

\* FullMatrix::lltDecomposition() on a square matrix
lltDecomposition(h, x) ==
  LET f == potrf(Elts(h, x), x.rows)
  IN  IF f.info # 0
        THEN [ok |-> FALSE, h |-> Store(h, x.m, f.a), x |-> x]
        ELSE [ok |-> TRUE,
              h |-> Store(h, x.m, [r \in 0..(x.rows - 1) |-> [c \in 0..(x.cols - 1) |->
                                     IF r < c THEN Zero ELSE f.a[r][c]]]),
              x |-> [x EXCEPT !.triLower_ = TRUE]]

\* the first row of largest modulus in column j, from row j down
getrfPivot(a, j, rws) ==
  CHOOSE p \in j..(rws - 1) :
    /\ \A q \in j..(rws - 1) : ~RLess(squaredNorm(a[p][j]), squaredNorm(a[q][j]))
    /\ \A q \in j..(p - 1) : RLess(squaredNorm(a[q][j]), squaredNorm(a[p][j]))

RECURSIVE getrfColumns(_, _, _, _, _, _)
\* LAPACK getrf(m, n, a, lda, ipiv) from column j on: row interchanges,
\* first is the first zero pivot so far (1-based) or 0
getrfColumns(a, j, rws, cls, ipiv, first) ==
  IF j = min(rws, cls) THEN [info |-> first, a |-> a, ipiv |-> ipiv]
  ELSE LET p == getrfPivot(a, j, rws)
           sw == [r \in 0..(rws - 1) |-> IF r = j THEN a[p] ELSE IF r = p THEN a[j] ELSE a[r]]
           sc == [r \in 0..(rws - 1) |-> [c \in 0..(cls - 1) |->
                    IF c = j /\ r > j /\ sw[j][j] # Zero THEN RDiv(sw[r][j], sw[j][j])
                    ELSE sw[r][c]]]
           up == [r \in 0..(rws - 1) |-> [c \in 0..(cls - 1) |->
                    IF r > j /\ c > j THEN RSub(sc[r][c], RMul(sc[r][j], sc[j][c]))
                    ELSE sc[r][c]]]
       IN  getrfColumns(up, j + 1, rws, cls, Append(ipiv, p + 1),
                        IF first = 0 /\ sw[j][j] = Zero THEN j + 1 ELSE first)
getrf(a, rws, cls) == getrfColumns(a, 0, rws, cls, <<>>, 0)

\* FullMatrix::luDecomposition(): ok is FALSE when HMAT_ASSERT(!info) fails
luDecomposition(h, x) ==
  LET f == getrf(Elts(h, x), x.rows, x.cols)
      h1 == Calloc(h, f.ipiv)
  IN  [ok |-> f.info = 0, h |-> Store(h1, x.m, f.a), x |-> [x EXCEPT !.pivots = New(Top(h1))]]

\* the files fromFile is given: one per size, full of ones
Files == {[rows |-> s[1], cols |-> s[2],
           v |-> [i \in 0..(s[1] - 1) |-> [j \in 0..(s[2] - 1) |-> POne]]] : s \in MatShapes}

\* FullMatrix::fromFile(filename): "if (m) free(m); m = calloc(size, 1);"
fromFile(h, x, file) ==
  LET h1 == Calloc(Free(h, x.m), file.v)
  IN  [h |-> h1,
       x |-> [x EXCEPT !.rows = file.rows, !.lda = file.rows, !.cols = file.cols, !.m = Top(h1)]]

\* a matrix is constructed on a block of memory, its own or the caller's, and
\* filled by the caller; a vector is constructed the same way
InitFullMatrix ==
  /\ \E s \in MatShapes : \E f \in [0..(s[1] - 1) -> [0..(s[2] - 1) -> Vals]] :
     \E own \in BOOLEAN :
       /\ heap = <<[external |-> ~own, frees |-> 0, v |-> ToRat(f)],
                   [external |-> ~own, frees |-> 0, v |-> ZeroVector(s[1])]>>
       /\ mat = [id \in MatIds |->
                   IF id = 1 THEN New(IF own THEN FullMatrixNew(1, s[1], s[2])
                                             ELSE FullMatrixView(1, s[1], s[2]))
                   ELSE NULL]
       /\ vect = New(IF own THEN VectorNew(2, s[1]) ELSE VectorView(2, s[1]))
  /\ thrown = NULL
  /\ ops = <<>>
  /\ CmpUnused /\ AdmUnused

This(id) == Deref(mat[id])
\* one more operation can be applied to the matrix: it exists and nothing has
\* been thrown
UsableWithin(id, n) == mat[id] # NULL /\ thrown = NULL /\ Len(ops) < n
Usable(id) == UsableWithin(id, MaxOps)
\* the operation name has been applied to the matrix id
Applied(name, id, h, x, t) ==
  /\ heap' = h
  /\ mat' = [mat EXCEPT ![id] = x]
  /\ thrown' = t
  /\ ops' = Append(ops, <<name, id>>)
  /\ UNCHANGED <<vect, cmpVars, admVars>>

Clear(id) ==
  /\ Usable(id)
  /\ Applied("clear", id, clear(heap, This(id)), mat[id], NULL)

Scale(id) ==
  /\ Usable(id)
  /\ \E alpha \in Alphas :
       Applied("scale", id, scaleFullMatrix(heap, This(id), alpha), mat[id], NULL)

\* a->transpose(), as one of at most n operations
TransposeWithin(id, n) ==
  /\ UsableWithin(id, n)
  /\ \E r \in {transpose(heap, This(id))} : Applied("transpose", id, r.h, New(r.x), NULL)
Transpose(id) == TransposeWithin(id, MaxOps)

\* result = a->copy() or a->copy(result)
Copy(id) ==
  /\ Usable(id)
  /\ \E to \in MatIds \ {id} :
       /\ mat[to] # NULL => This(to).rows = This(id).rows /\ This(to).cols = This(id).cols
       /\ \E r \in {copy(heap, This(id), mat[to])} :
            Applied(IF mat[to] = NULL THEN "copy" ELSE "copy(result)", to, r.h, New(r.x), NULL)

\* with assert() compiled in, "assert(!isTriUpper())" ends the process
\* a->ldltDecomposition(), as one of at most n operations
LdltDecompositionWithin(id, n) ==
  /\ UsableWithin(id, n)
  /\ This(id).rows = This(id).cols
  /\ \E r \in {ldltDecomposition(heap, This(id))} :
       IF ~r.ok THEN Applied("ldlt", id, r.h, New(r.x), New("HMAT_ASSERT"))
       ELSE \/ Applied("ldlt", id, r.h, New(r.x), NULL)
            \/ /\ This(id).triUpper_
               /\ Applied("ldlt", id, heap, mat[id], New("assert"))
LdltDecomposition(id) == LdltDecompositionWithin(id, MaxOps)

\* a->lltDecomposition(), as one of at most n operations
LltDecompositionWithin(id, n) ==
  /\ UsableWithin(id, n)
  /\ This(id).rows = This(id).cols
  /\ potrf(Elts(heap, This(id)), This(id).rows).exact
  /\ \E r \in {lltDecomposition(heap, This(id))} :
       Applied("llt", id, r.h, New(r.x), IF r.ok THEN NULL ELSE New("LapackException"))
LltDecomposition(id) == LltDecompositionWithin(id, MaxOps)

LuDecomposition(id) ==
  /\ Usable(id)
  /\ \E r \in {luDecomposition(heap, This(id))} :
       Applied("lu", id, r.h, New(r.x), IF r.ok THEN NULL ELSE New("HMAT_ASSERT"))

FromFile(id) ==
  /\ Usable(id)
  /\ \E file \in Files : \E r \in {fromFile(heap, This(id), file)} :
       Applied("fromFile", id, r.h, New(r.x), NULL)

\* delete a, also while an exception goes up
Destroy(id) ==
  /\ mat[id] # NULL /\ thrown # New("assert")
  /\ heap' = destroy(heap, This(id))
  /\ mat' = [mat EXCEPT ![id] = NULL]
  /\ ops' = Append(ops, <<"destroy", id>>)
  /\ UNCHANGED <<vect, thrown, cmpVars, admVars>>

\* Vector::~Vector()
VectorDestroy ==
  /\ vect # NULL /\ thrown # New("assert")
  /\ heap' = IF Deref(vect).ownsMemory THEN Free(heap, Deref(vect).v) ELSE heap
  /\ vect' = NULL
  /\ UNCHANGED <<mat, thrown, ops, cmpVars, admVars>>

NextFullMatrix ==
  \/ \E id \in MatIds : Clear(id)
  \/ \E id \in MatIds : Scale(id)
  \/ \E id \in MatIds : Transpose(id)
  \/ \E id \in MatIds : Copy(id)
  \/ \E id \in MatIds : LdltDecomposition(id)
  \/ \E id \in MatIds : LltDecomposition(id)
  \/ \E id \in MatIds : LuDecomposition(id)
  \/ \E id \in MatIds : FromFile(id)
  \/ \E id \in MatIds : Destroy(id)
  \/ VectorDestroy

SpecFullMatrix == InitFullMatrix /\ [][NextFullMatrix]_vars

\* the matrix id exists and every operation applied so far is one of names
\* and has ended without throwing
After(names, id) ==
  /\ mat[id] # NULL /\ thrown = NULL
  /\ \A i \in DOMAIN ops : ops[i][1] \in names

\* C18: after any sequence of ldlt, llt, lu, transpose, copy, scale and clear
\* on a matrix, at most one of triUpper_ and triLower_ is true.
TriExclusive ==
  \A id \in MatIds :
    After({"ldlt", "llt", "lu", "transpose", "copy", "copy(result)", "scale", "clear"}, id)
      => ~(This(id).triUpper_ /\ This(id).triLower_)
\* llt, transpose, llt leave both flags set
TriBoth ==
  /\ ops = <<<<"llt", 1>>, <<"transpose", 1>>, <<"llt", 1>>>> /\ thrown = NULL
  /\ This(1).triUpper_ /\ This(1).triLower_

\* every element on the diagonal of the matrix is one
UnitDiagonal(x) == \A i \in 0..(min(x.rows, x.cols) - 1) : Elts(heap, x)[i][i] = POne
\* the last operation is name, applied to the matrix id
Last(name, id) == ops # <<>> /\ ops[Len(ops)] = <<name, id>>

\* C19 as stated: after any sequence of ldlt, transpose, scale, clear and copy
\* on a matrix, when diagonal is present triLower_ is true and every element
\* on the diagonal of the matrix is one.
DiagonalUnit ==
  \A id \in MatIds :
    (After({"ldlt", "transpose", "scale", "clear", "copy", "copy(result)"}, id)
       /\ This(id).diagonal # NULL)
      => This(id).triLower_ /\ UnitDiagonal(This(id))

\* C19: diagonal is present only once ldlt has been applied; right after an
\* ldlt that found no zero pivot, diagonal is present, triLower_ is true and
\* every element on the diagonal of the matrix is one, and a copy to a new
\* matrix has the same three properties.  (transpose then turns triLower_
\* into triUpper_, scale multiplies the diagonal of the matrix, clear zeroes
\* it.)
DiagonalAfterLdlt ==
  \A id \in MatIds :
    After({"ldlt", "transpose", "scale", "clear", "copy", "copy(result)"}, id) =>
      /\ This(id).diagonal # NULL => \E i \in DOMAIN ops : ops[i][1] = "ldlt"
      /\ (Last("ldlt", id)
            \/ (Len(ops) > 1 /\ Last("copy", id) /\ ops[Len(ops) - 1][1] = "ldlt"))
           => /\ This(id).diagonal # NULL
              /\ This(id).triLower_
              /\ UnitDiagonal(This(id))
\* a 2 x 2 matrix factored by ldlt, with an element below its diagonal
DiagonalAfterLdltWitness ==
  /\ After({"ldlt"}, 1) /\ Last("ldlt", 1) /\ This(1).rows = 2
  /\ Elts(heap, This(1))[1][0] # Zero
  /\ DiagElts(heap, This(1)) # ZeroVector(2)

\* C20: storage handed to a view (matrix or vector) is never freed by it,
\* whatever is applied to the view, transpose, scale and fromFile included;
\* no block is freed twice; storage a matrix or a vector has allocated for
\* itself is not freed while the object lives and has been freed once when
\* the object is gone.
BorrowedNeverFreed ==
  /\ \A b \in DOMAIN heap : heap[b].external => heap[b].frees = 0
  /\ \A b \in DOMAIN heap : heap[b].frees <= 1
  /\ \A id \in MatIds :
       (mat[id] # NULL /\ This(id).ownsMemory) => heap[This(id).m].frees = 0
  /\ (vect # NULL /\ Deref(vect).ownsMemory) => heap[Deref(vect).v].frees = 0
  /\ mat[1] = NULL => heap[1].frees = (IF heap[1].external THEN 0 ELSE 1)
  /\ vect = NULL => heap[2].frees = (IF heap[2].external THEN 0 ELSE 1)
\* a view has read a file and has freed the storage it was given
BorrowedFreed ==
  /\ ops = <<<<"fromFile", 1>>>> /\ thrown = NULL
  /\ ~This(1).ownsMemory
  /\ heap[1].external /\ heap[1].frees = 1
\* everything but fromFile respects the ownership of the storage
BorrowedNeverFreedButFromFile ==
  (\A i \in DOMAIN ops : ops[i][1] # "fromFile") => BorrowedNeverFreed

\* the last operation applied is one of names
LastIn(names) == ops # <<>> /\ ops[Len(ops)][1] \in names

\* C21: when the LAPACK routine of lltDecomposition (potrf) or of
\* luDecomposition (getrf) answers a non-zero info, the operation ends by
\* throwing a LapackException, never by a failed assertion.
LapackErrorPropagates ==
  (LastIn({"llt", "lu"}) /\ thrown # NULL) => thrown = New("LapackException")
\* getrf has met a zero pivot in a 1 x 1 matrix and HMAT_ASSERT(!info) failed
LapackErrorAsserted ==
  /\ ops = <<<<"lu", 1>>>> /\ This(1).rows = 1 /\ This(1).cols = 1
  /\ thrown = New("HMAT_ASSERT")
\* potrf alone: a non-zero info is thrown as a LapackException
LapackErrorFromPotrf ==
  (LastIn({"llt"}) /\ thrown # NULL) => thrown = New("LapackException")

RECURSIVE PairsEntry(_, _, _, _, _)
\* entry (i, j) of the sum over l = 1 .. n of as[l] * bs[l]^T
PairsEntry(as, bs, n, i, j) ==
  IF n = 0 THEN Zero ELSE RAdd(PairsEntry(as, bs, n - 1, i, j), RMul(as[n][i], bs[n][j]))
\* the squared Frobenius norm of that sum
PairsNormSqr(as, bs, n) ==
  SumSqrTo([x \in 0..(RowCount * ColCount - 1) |->
              PairsEntry(as, bs, n, x \div ColCount, x % ColCount)], RowCount * ColCount)

\* the running estimate of compressAcaPartial and of compressAcaPlus is the
\* squared Frobenius norm of the sum of the k pairs produced so far
RunningEstimatePartialPlus ==
  AtLoopBoundary => estimateSquaredNorm = PairsNormSqr(aCols, bCols, k)

\* C22: in the three cross approximations, once the pairs up to the k-th are
\* produced, the running estimate is the squared Frobenius norm of the sum
\* of these pairs (all the earlier pairs enter the cross terms).
RunningEstimate ==
  /\ RunningEstimatePartialPlus
  /\ (method = "AcaFull" /\ pc = "AcaFull")
       => estimateSquaredNorm = PairsNormSqr(tmpA, tmpB, nu)
\* compressAcaFull has produced two pairs, and its estimate is not the norm
RunningEstimateShort ==
  /\ method = "AcaFull" /\ pc = "AcaFull" /\ nu = 2
  /\ estimateSquaredNorm # PairsNormSqr(tmpA, tmpB, nu)

\* C23: compressAcaPartial returns an empty RkMatrix only for a block whose
\* entries are all zero; a block with a non-zero entry, its first rows zero
\* or not, gets a non-empty RkMatrix.
PartialEmptyOnlyIfZero ==
  (method = "AcaPartial" /\ Returned /\ ~ZeroKernel) => ~RkEmpty(Rk)
\* the block (0; 1), of 2 rows and 1 column, has got an empty RkMatrix
PartialEmptyNonZero ==
  /\ method = "AcaPartial" /\ Returned /\ ~oob
  /\ RowCount = 2 /\ ColCount = 1
  /\ kernel.m[0][0] = Zero /\ kernel.m[1][0] = POne
  /\ RkEmpty(Rk) /\ rowPivotCount = 1 /\ rowFree[1]
\* with at least as many columns as rows, and no read outside rowFree, the
\* rows are all tried
PartialEmptyOnlyIfZeroWide ==
  (method = "AcaPartial" /\ Returned /\ ~ZeroKernel /\ RowCount <= ColCount /\ ~oob)
    => ~RkEmpty(Rk)

\* C24: ldltDecomposition never returns normally with a zero in diagonal:
\* a zero pivot, the last one and the one of a 1 x 1 matrix included, makes
\* it fail.
LdltZeroPivotFatal ==
  \A id \in MatIds :
    (mat[id] # NULL /\ Last("ldlt", id) /\ thrown = NULL)
      => \A i \in 0..(This(id).rows - 1) : DiagElts(heap, This(id))[i] # Zero
\* ldltDecomposition has returned normally from the 1 x 1 matrix [0]
LdltZeroPivotKept ==
  /\ ops = <<<<"ldlt", 1>>>> /\ thrown = NULL
  /\ This(1).rows = 1 /\ This(1).triLower_
  /\ DiagElts(heap, This(1))[0] = Zero
\* the pivots that divide a column are not zero
LdltZeroPivotButLast ==
  \A id \in MatIds :
    (mat[id] # NULL /\ Last("ldlt", id) /\ thrown = NULL)
      => \A i \in 0..(This(id).rows - 2) : DiagElts(heap, This(id))[i] # Zero

(***************************************************************************)
(* Factorizations and transpositions alone, in runs one operation longer.  *)
(***************************************************************************)
MaxFlagOps == 4

NextTranspose ==
  \/ \E id \in MatIds : TransposeWithin(id, MaxFlagOps)
  \/ \E id \in MatIds : LltDecompositionWithin(id, MaxFlagOps)
  \/ \E id \in MatIds : LdltDecompositionWithin(id, MaxFlagOps)
SpecTranspose == InitFullMatrix /\ [][NextTranspose]_vars

\* x1 is x transposed: sizes exchanged, lda the new rows, elements mirrored
Transposed(h, x, h1, x1) ==
  /\ x1.rows = x.cols /\ x1.cols = x.rows /\ x1.lda = x1.rows
  /\ \A i \in 0..(x1.rows - 1) : \A j \in 0..(x1.cols - 1) :
       Elts(h1, x1)[i][j] = Elts(h, x)[j][i]
\* the flags of x1 are those of x exchanged
FlagsSwapped(x, x1) == x1.triUpper_ = x.triLower_ /\ x1.triLower_ = x.triUpper_
\* transposing x1 once more gives x back: sizes, elements, flags
TransposedBack(h, x, h1, x1) ==
  \E r \in {transpose(h1, x1)} :
    /\ r.x.rows = x.rows /\ r.x.cols = x.cols
    /\ Elts(r.h, r.x) = Elts(h, x)
    /\ r.x.triUpper_ = x.triUpper_ /\ r.x.triLower_ = x.triLower_

\* C25: transpose makes a rows x cols matrix a cols x rows one with
\* result(i, j) = original(j, i) and lda = the new rows, and exchanges
\* triUpper_ and triLower_; a second transpose restores sizes, elements and
\* both flags.
TransposeInvolution ==
  [][\A id \in MatIds : TransposeWithin(id, MaxFlagOps) =>
       /\ Transposed(heap, This(id), heap', Deref(mat'[id]))
       /\ FlagsSwapped(This(id), Deref(mat'[id]))
       /\ TransposedBack(heap, This(id), heap', Deref(mat'[id]))]_vars
\* a matrix with both flags set has been transposed: one flag is left
TransposeLosesFlag ==
  /\ ops = <<<<"llt", 1>>, <<"transpose", 1>>, <<"llt", 1>>, <<"transpose", 1>>>>
  /\ thrown = NULL
  /\ ~This(1).triUpper_ /\ This(1).triLower_
\* on a matrix that has not both flags set the statement holds
TransposeInvolutionExclusive ==
  [][\A id \in MatIds :
       (TransposeWithin(id, MaxFlagOps) /\ ~(This(id).triUpper_ /\ This(id).triLower_)) =>
         /\ Transposed(heap, This(id), heap', Deref(mat'[id]))
         /\ FlagsSwapped(This(id), Deref(mat'[id]))
         /\ TransposedBack(heap, This(id), heap', Deref(mat'[id]))]_vars

\* C26: as long as clean has deleted no box of a node, at most one box is
\* built for it: by the first isAdmissible call on the node that goes past
\* the two tests on the sizes; later calls use the box of the side channel;
\* a call stopped by a test on the sizes builds no box and leaves the side
\* channels as they are.
BoxBuiltOnce ==
  /\ [](\A n \in AdmNodes :
          released[n] = 0 => built[n] = (IF admissibilityAlgoData_[n] = NULL THEN 0 ELSE 1))
  /\ [][\A rows, cols \in AdmNodes :
          IsAdmissibleCall(rows, cols) =>
            IF Passes(rows, cols)
              THEN \A n \in AdmNodes :
                     /\ built'[n] = built[n] +
                          (IF n \in {rows, cols} /\ admissibilityAlgoData_[n] = NULL
                             THEN 1 ELSE 0)
                     /\ admissibilityAlgoData_[n] # NULL
                          => admissibilityAlgoData_'[n] = admissibilityAlgoData_[n]
              ELSE built' = built /\ admissibilityAlgoData_' = admissibilityAlgoData_]_vars
\* both nodes have their box, built once, no clean has deleted one, and the
\* last call, on node 2 alone, went past the tests: it has used a box of the
\* side channel
BoxBuiltOnceWitness ==
  /\ Called /\ Call.rows = 2 /\ Call.cols = 2 /\ PassedGates
  /\ \A n \in AdmNodes : built[n] = 1 /\ released[n] = 0 /\ admissibilityAlgoData_[n] # NULL

\* entry (i, j) of the residual: the block less the pairs produced so far
Residual(i, j) == RSub(kernel.m[i][j], PairsEntry(aCols, bCols, k, i, j))

\* C27: at the start of every pass of the loop of compressAcaPlus, i_ref and
\* j_ref are indices of the block, aRef is column j_ref of the residual and
\* bRef its row i_ref, and neither is zero; the pivot of either branch is
\* then not zero: HMAT_ASSERT(pivot != zero) never fails.
AcaPlusRefs ==
  /\ (method = "AcaPlus" /\ pc = "AcaPlus") =>
       /\ i_ref \in 0..(RowCount - 1) /\ j_ref \in 0..(ColCount - 1)
       /\ ~isZero(aRef) /\ ~isZero(bRef)
       /\ \A i \in 0..(RowCount - 1) : aRef[i] = Residual(i, j_ref)
       /\ \A j \in 0..(ColCount - 1) : bRef[j] = Residual(i_ref, j)
       /\ acaPlusPivot.pivot # Zero
  /\ method = "AcaPlus" => pc \notin {"fatal", "fault"}
\* a second pass is about to start, with references that are not those of
\* the first pass
AcaPlusRefsWitness ==
  /\ method = "AcaPlus" /\ pc = "AcaPlus" /\ k = 1
  /\ ~rowFree[i_ref] /\ pivots[1][1] # i_ref /\ pivots[1][2] # j_ref
  /\ ~isZero(aRef) /\ ~isZero(bRef)

\* C28: compressAcaPartial reads and writes rowFree and colFree within
\* their range only: the scan "I = 0; while (!rowFree[I]) I++" stops on a
\* free row before I is rows.size, I and J stay indices of the block.
PartialInRange ==
  method = "AcaPartial" =>
    /\ ~oob /\ pc # "fault"
    /\ pc \in {"AcaPartial", "AcaPartial_end", "return", "done"}
         => I \in 0..(RowCount - 1) /\ J \in 0..(ColCount - 1)
\* the scan has left rowFree on a block of 2 rows and 3 columns: its two
\* rows had been fetched, the second one left no pivot
PartialScanLeaves ==
  /\ method = "AcaPartial" /\ oob
  /\ RowCount = 2 /\ ColCount = 3 /\ ~ZeroKernel
  /\ rowPivotCount = 2 /\ k = 1
  /\ \A i \in 0..(RowCount - 1) : ~rowFree[i]
\* the scan leaves rowFree only when no row is free
PartialScanLeavesWhenNoneFree ==
  (method = "AcaPartial" /\ oob) => \A i \in 0..(RowCount - 1) : ~rowFree[i]

\* the rows marked not free
UsedRows == {i \in 0..(RowCount - 1) : ~rowFree[i]}

\* C29: in compressAcaPartial rowPivotCount is the number of rows marked not
\* free: no row is fetched and counted twice.
PivotCountIsUsedRows ==
  (method = "AcaPartial" /\ pc \in {"AcaPartial", "AcaPartial_end", "return", "done"})
    => rowPivotCount = Cardinality(UsedRows)
\* on the 2 x 2 identity row 0 has been fetched twice and row 1 never
PivotCountedTwice ==
  /\ method = "AcaPartial" /\ Returned /\ ~oob
  /\ RowCount = 2 /\ ColCount = 2
  /\ kernel.m[0][0] = POne /\ kernel.m[0][1] = Zero
  /\ kernel.m[1][0] = Zero /\ kernel.m[1][1] = POne
  /\ rowPivotCount = 2 /\ UsedRows = {0} /\ calls.getRow = 2 /\ k = 1
\* the count is never below the number of rows marked not free
PivotCountAtLeastUsedRows ==
  (method = "AcaPartial" /\ pc \in {"AcaPartial", "AcaPartial_end", "return", "done"})
    => rowPivotCount >= Cardinality(UsedRows)

(***************************************************************************)
(* Termination of compress: a measure that every step lowers, and no state *)
(* short of the end without a step to take.                                *)
(***************************************************************************)
\* the passes a loop has made so far
Passes_ == IF method = "AcaFull" THEN nu
           ELSE IF method = "AcaPartial" THEN rowPivotCount
           ELSE k
\* the steps compress has still to take, at most
Measure ==
  IF pc = "call" THEN min(RowCount, ColCount) + 6
  ELSE IF pc = "dispatch" THEN min(RowCount, ColCount) + 5
  ELSE IF pc \in {"AcaFull", "AcaPartial", "AcaPlus"}
    THEN min(RowCount, ColCount) + 3 - Passes_
  ELSE IF pc \in {"AcaFull_end", "AcaPartial_end", "AcaPlus_end"} THEN 2
  ELSE IF pc = "return" THEN 1
  ELSE 0

\* the passes of the three loops and the calls of the kernel stay within
\* their bounds
LoopsBounded ==
  /\ method = "AcaFull" =>
       /\ nu <= min(RowCount, ColCount)
       /\ calls.getRow = 0 /\ calls.getCol = 0
  /\ method = "AcaPartial" =>
       /\ rowPivotCount <= min(RowCount, ColCount)
       /\ pc = "AcaPartial" => rowPivotCount < min(RowCount, ColCount)
       /\ calls.getRow <= rowPivotCount /\ calls.getCol <= rowPivotCount
  /\ method = "AcaPlus" =>
       /\ k <= min(RowCount, ColCount)
       /\ pc = "AcaPlus" => k < min(RowCount, ColCount)
  /\ method \in CrossMethods =>
       /\ calls.getRow <= 2 * RowCount
       /\ calls.getCol <= 2 * ColCount
       /\ Measure >= 0
\* short of the end, compress is at a place from where a step is taken
NotStuck ==
  (method \in CrossMethods /\ ~Ended) =>
    /\ pc \in {"call", "dispatch", "AcaFull", "AcaFull_end", "AcaPartial",
               "AcaPartial_end", "AcaPlus", "AcaPlus_end", "return"}
    /\ Measure > 0

====
